---- MODULE Spec2Model ----
(***************************************************************************)
(* Model of the consensus reactor's peer-state tracker                     *)
(* (consensus/reactor.go): the PeerRoundState kept for one peer, the       *)
(* PeerState operations that mutate it, and the messages a peer can send.  *)
(*                                                                         *)
(* Bit-arrays are heap objects: a field of the PeerRoundState holds a      *)
(* pointer (0 is nil), so that two fields can hold the same instance, as   *)
(* in the Go code.  Bit indices are 0-based as in Go; bit i of a bit-array *)
(* is element i+1 of its sequence.                                         *)
(***************************************************************************)
EXTENDS Integers, Sequences, FiniteSets, TLC

VARIABLES
    ps,     \* the peer's PeerRoundState (pointer fields hold heap ids)
    heap,   \* the live cmn.BitArray instances: id -> sequence of BOOLEAN
    env,    \* the traffic of this behaviour: "data", "votes", "readers", ...
    snap,   \* a PeerRoundState returned by GetRoundState and still held
    ret,    \* the last operation on the PeerState and what it returned
    fastSync,       \* conR.fastSync
    peerMsgQueue,   \* conR.conS.peerMsgQueue: the msgInfo values not yet taken
    effects,        \* the calls the last Receive or gossip iteration made on the
                    \* consensus state, the peer and peerMsgQueue, in order
    recv,           \* per peer: the frames its connection has yet to hand to
                    \* Receive, those handed over, and the msgInfo its Receive
                    \* is blocked sending to peerMsgQueue
    taken,          \* the msgInfo values the consensus core has taken, in order
    rs,             \* the local node's RoundState, as the gossip routines read it
    peerB,          \* what the peer itself holds
    net,            \* the messages accepted by peer.Send and not yet delivered
    lossy,          \* whether peer.Send can return false
    isRunning,      \* conR.IsRunning()
    conS,           \* the consensus core as a service: "new", "running", "stopped"
    registered,     \* whether registerEventCallbacks has added conR's listeners
    peerRunning,    \* peer.IsRunning()
    peerData,       \* whether peer.Data holds a PeerState under PeerStateKey
    loc,            \* where each per-peer routine of the peer is ("none" before
                    \* AddPeer has started it)
    woke,           \* the routines that have returned from a time.Sleep and
                    \* not called IsRunning since
    blockStore,     \* conR.conS.blockStore: the stored blocks, by height
    mtx,            \* the mutexes held: who holds which of PeerState.mtx,
                    \* conR.mtx and conR.conS.mtx, and how
    next,           \* TxEventBuffer.next: the publisher behind the buffer
    events,         \* TxEventBuffer.events
    published,      \* the events published on the underlying publisher, in order
    call,           \* the BroadcastTxCommit call in progress, or its return
    clock           \* the time, in seconds

\* The reactor around the PeerState.
reactor == <<fastSync, peerMsgQueue, effects>>

\* The connections of the peers, and the two ends of the gossip.
wire == <<recv, taken>>
gossip == <<rs, peerB, net, lossy>>

\* The reactor as a service, with the routines of one peer.
life == <<isRunning, conS, registered, peerRunning, peerData, loc, woke, blockStore,
          mtx>>

\* The transaction events and the RPC call that waits for one.
rpc == <<next, events, published, call, clock>>

vars == <<ps, heap, env, snap, ret, reactor, wire, gossip, life, rpc>>

----------------------------------------------------------------------------
(* Bounds of the model *)

MaxHeight == 2      \* heights of messages, vote sets and the local core: 1..MaxHeight
MaxRound == 1       \* rounds of messages and vote sets: -1..MaxRound
MaxBits == 3        \* largest bit-array a peer message carries, largest validator set
MaxTime == 1        \* the clock reading; SecondsSinceStartTime is in 0..MaxTime
MaxParts == 2       \* largest part-set total a proposal or commit step names

(* A behaviour carries one kind of traffic (env), which bounds what the peer  *)
(* and the local node put into the operations' arguments:                     *)
(*   "data"    round steps with every step and start time, proposals with     *)
(*             parts, block parts, commit steps;                              *)
(*   "votes"   round steps (step NewHeight), proposals of an empty part set,  *)
(*             proposal POLs, votes, vote-set bits, and the votes the local   *)
(*             node picks to send;                                            *)
(*   "readers" round steps and votes, and a reader holding a GetRoundState    *)
(*             result.                                                        *)
(* The operations are the same in all three.  In these three the reactor is   *)
(* running and not fast-syncing, and the consensus core takes each msgInfo    *)
(* off peerMsgQueue as it arrives, so the queue is empty between receptions.  *)
Envs == {"data", "votes", "readers"}

----------------------------------------------------------------------------
(* Program constants: the values of the types package and of RoundStepType *)

VoteTypePrevote == 1
VoteTypePrecommit == 2

RoundStepNewHeight == 1
RoundStepPrevote == 4
RoundStepPrecommit == 6
RoundStepCommit == 8

Nil == 0

Heights == 1..MaxHeight
Rounds == (-1)..MaxRound
\* The Round of a NewRoundStepMessage is whatever the peer encoded.
StepRounds == IF env = "data" THEN (-2)..MaxRound ELSE 0..MaxRound
Steps == IF env = "data" THEN {RoundStepNewHeight, RoundStepCommit} ELSE {RoundStepNewHeight}
Seconds == IF env = "data" THEN 0..MaxTime ELSE {0}
LastCommitRounds == IF env = "votes" THEN (-1)..0 ELSE {-1}
Totals == IF env = "data" THEN 0..MaxParts ELSE {0}
VoteTypes == {VoteTypePrevote, VoteTypePrecommit}

\* cs.Validators.Size() at each height: the validator set changes between heights.
NumValidators(h) == IF h % 2 = 1 THEN MaxBits - 1 ELSE MaxBits

\* The validators whose votes appear (by index), and the indices a vote or a
\* HasVote message names: those, and one outside every validator set.
Voters == {1}
Indices == Voters \cup {MaxBits}

\* cs.LastCommit.Size(): the validators of the previous height, 0 at the first height
\* (a nil vote set).
LastCommitSize(h) == IF h <= 1 THEN 0 ELSE NumValidators(h - 1)

----------------------------------------------------------------------------
(* cmn.BitArray, on values: a sequence of BOOLEAN, <<>> for a nil array *)

Min(S) == CHOOSE x \in S : \A y \in S : x <= y

BitSeqs(n) == [1..n -> BOOLEAN]

\* The vote bit-arrays of n bits in which only the Voters have bits.
VoterBits(n) == {b \in BitSeqs(n) : \A i \in 1..n : b[i] => (i - 1) \in Voters}

\* NewBitArray(n): n clear bits; there is no bit-array of size 0 (nil instead).
NewBits(n) == [i \in 1..n |-> FALSE]

GetIndexVal(b, i) == i >= 0 /\ i < Len(b) /\ b[i + 1]

\* SetIndex(i, true): false (and no change) when i is outside the array.
SetIndexVal(b, i) == IF i >= 0 /\ i < Len(b) THEN [b EXCEPT ![i + 1] = TRUE] ELSE b

\* a.Sub(o): the bits of a that o does not have; the result has a's size.
SubVal(a, o) == [i \in 1..Len(a) |-> a[i] /\ ~(i <= Len(o) /\ o[i])]

\* a.Or(o): the result has the larger size.
OrVal(a, o) ==
    [i \in 1..(IF Len(a) >= Len(o) THEN Len(a) ELSE Len(o)) |->
        (i <= Len(a) /\ a[i]) \/ (i <= Len(o) /\ o[i])]

\* b.Update(o): copies o's bits into b; b keeps its size.
UpdateVal(b, o) == [i \in 1..Len(b) |-> i <= Len(o) /\ o[i]]

\* PickRandom(): the indices it can return (any set bit).
SetBits(b) == {i \in 0..(Len(b) - 1) : b[i + 1]}

----------------------------------------------------------------------------
(* The heap of bit-array instances.  A state is [ps, heap]. *)

PtrFields ==
    <<"ProposalBlockParts", "ProposalPOL", "Prevotes", "Precommits",
      "LastCommit", "CatchupCommit">>

\* An id no live instance has (live ids are at most 12).
FreshId(h) == Min({i \in 13..19 : i \notin DOMAIN h})

HeapPut(h, id, v) == [i \in (DOMAIN h) \cup {id} |-> IF i = id THEN v ELSE h[i]]

\* The bits behind pointer p, <<>> for nil.
Deref(h, p) == IF p = Nil THEN <<>> ELSE h[p]

\* field f := a new instance holding the bits v (nil when v is empty).
StoreNew(st, f, v) ==
    IF v = <<>>
    THEN [st EXCEPT !.ps[f] = Nil]
    ELSE LET id == FreshId(st.heap)
         IN [ps |-> [st.ps EXCEPT ![f] = id], heap |-> HeapPut(st.heap, id, v)]

\* p.SetIndex(i, true) on the instance behind p; nothing on nil.
SetIndexAt(st, p, i) ==
    IF p = Nil THEN st
    ELSE [st EXCEPT !.heap[p] = SetIndexVal(st.heap[p], i)]

ZeroHeader == [Total |-> 0, Hash |-> 0]

\* NewPeerState
NewPeerState ==
    [Height |-> 0, Round |-> -1, Step |-> 0, StartTime |-> 0,
     Proposal |-> FALSE, ProposalBlockPartsHeader |-> ZeroHeader,
     ProposalBlockParts |-> Nil, ProposalPOLRound |-> -1, ProposalPOL |-> Nil,
     Prevotes |-> Nil, Precommits |-> Nil,
     LastCommitRound |-> -1, LastCommit |-> Nil,
     CatchupCommitRound |-> -1, CatchupCommit |-> Nil]

NoSnap == [held |-> FALSE]

----------------------------------------------------------------------------
(* Canonical heap: unreferenced instances are collected, and a live instance *)
(* is named by the first pointer field that holds it (1..6 for the fields of *)
(* the peer state in the order of PtrFields, 7..12 for those of the held     *)
(* GetRoundState result).                                                    *)

Roots(p, s) ==
    <<p.ProposalBlockParts, p.ProposalPOL, p.Prevotes, p.Precommits,
      p.LastCommit, p.CatchupCommit>> \o
    (IF s.held
     THEN <<s.prs.ProposalBlockParts, s.prs.ProposalPOL, s.prs.Prevotes,
            s.prs.Precommits, s.prs.LastCommit, s.prs.CatchupCommit>>
     ELSE <<Nil, Nil, Nil, Nil, Nil, Nil>>)

Renamed(r, x) == IF x = Nil THEN Nil ELSE Min({i \in 1..12 : r[i] = x})

RenamePrs(r, p) ==
    [p EXCEPT !.ProposalBlockParts = Renamed(r, @),
              !.ProposalPOL = Renamed(r, @),
              !.Prevotes = Renamed(r, @),
              !.Precommits = Renamed(r, @),
              !.LastCommit = Renamed(r, @),
              !.CatchupCommit = Renamed(r, @)]

CanonPs(st, s) == RenamePrs(Roots(st.ps, s), st.ps)

CanonSnap(st, s) ==
    IF s.held THEN [held |-> TRUE, prs |-> RenamePrs(Roots(st.ps, s), s.prs)] ELSE s

CanonHeap(st, s) ==
    LET r == Roots(st.ps, s)
    IN [n \in {i \in 1..12 : r[i] # Nil /\ \A j \in 1..(i - 1) : r[j] # r[i]} |->
            st.heap[r[n]]]

Cur == [ps |-> ps, heap |-> heap]

SamePointers(p, q) == \A i \in 1..6 : p[PtrFields[i]] = q[PtrFields[i]]

\* The next state is st, with s the snapshot held.
Becomes(st, s) ==
    IF SamePointers(st.ps, ps) /\ s = snap
    THEN ps' = st.ps /\ heap' = st.heap /\ snap' = snap
    ELSE /\ ps' = CanonPs(st, s)
         /\ heap' = CanonHeap(st, s)
         /\ snap' = CanonSnap(st, s)

Ret(op, ok, idx) == [op |-> op, ok |-> ok, idx |-> idx]

----------------------------------------------------------------------------
(* ApplyNewRoundStepMessage *)

\* CompareHRS(h1, r1, s1, h2, r2, s2): -1, 0 or 1, lexicographic.
CompareHRS(h1, r1, s1, h2, r2, s2) ==
    IF h1 < h2 THEN -1
    ELSE IF h1 > h2 THEN 1
    ELSE IF r1 < r2 THEN -1
    ELSE IF r1 > r2 THEN 1
    ELSE IF s1 < s2 THEN -1
    ELSE IF s1 > s2 THEN 1
    ELSE 0

NewRoundStepMessages ==
    [Height : Heights, Round : StepRounds, Step : Steps,
     SecondsSinceStartTime : Seconds, LastCommitRound : LastCommitRounds]

\* Variants of the guard, which C1 and C3 tell from the code's: one that lets
\* decreases through, one that lets duplicates through.
NRSIgnoredDuplicatesOnly(p, msg) ==
    CompareHRS(msg.Height, msg.Round, msg.Step, p.Height, p.Round, p.Step) = 0

NRSIgnoredDecreasesOnly(p, msg) ==
    CompareHRS(msg.Height, msg.Round, msg.Step, p.Height, p.Round, p.Step) < 0

\* "Ignore duplicates or decreases"
NRSIgnored(p, msg) ==
    CompareHRS(msg.Height, msg.Round, msg.Step, p.Height, p.Round, p.Step) <= 0

\* The fields reset when the height or the round changes.
NRSResetRound(p, msg) ==
    IF p.Height # msg.Height \/ p.Round # msg.Round
    THEN [Proposal |-> FALSE, ProposalBlockPartsHeader |-> ZeroHeader,
          ProposalBlockParts |-> Nil, ProposalPOLRound |-> -1, ProposalPOL |-> Nil,
          Prevotes |-> Nil, Precommits |-> Nil]
    ELSE [f \in {"Proposal", "ProposalBlockPartsHeader", "ProposalBlockParts",
                 "ProposalPOLRound", "ProposalPOL", "Prevotes", "Precommits"} |-> p[f]]

\* A variant that resets Precommits at every round change, which C35 tells
\* from the code's.
NRSPrecommitsAlwaysReset(p, msg) == NRSResetRound(p, msg).Precommits

\* Precommits after the round reset and the "peer caught up to CatchupCommitRound" step.
NRSPrecommits(p, msg) ==
    IF p.Height = msg.Height /\ p.Round # msg.Round /\ msg.Round = p.CatchupCommitRound
    THEN p.CatchupCommit
    ELSE NRSResetRound(p, msg).Precommits

\* "Shift Precommits to LastCommit": reads ps.Precommits after the reset above.
NRSLastCommit(p, msg) ==
    IF p.Height # msg.Height
    THEN IF p.Height + 1 = msg.Height /\ p.Round = msg.LastCommitRound
         THEN NRSPrecommits(p, msg)
         ELSE Nil
    ELSE p.LastCommit

ApplyNewRoundStepMessage(st, msg, now) ==
    LET p == st.ps
        rr == NRSResetRound(p, msg)
    IN IF NRSIgnored(p, msg) THEN st
       ELSE [st EXCEPT !.ps =
               [Height |-> msg.Height, Round |-> msg.Round, Step |-> msg.Step,
                StartTime |-> now - msg.SecondsSinceStartTime,
                Proposal |-> rr.Proposal,
                ProposalBlockPartsHeader |-> rr.ProposalBlockPartsHeader,
                ProposalBlockParts |-> rr.ProposalBlockParts,
                ProposalPOLRound |-> rr.ProposalPOLRound,
                ProposalPOL |-> rr.ProposalPOL,
                Prevotes |-> rr.Prevotes,
                Precommits |-> NRSPrecommits(p, msg),
                LastCommitRound |->
                    IF p.Height # msg.Height THEN msg.LastCommitRound
                    ELSE p.LastCommitRound,
                LastCommit |-> NRSLastCommit(p, msg),
                CatchupCommitRound |->
                    IF p.Height # msg.Height THEN -1 ELSE p.CatchupCommitRound,
                CatchupCommit |->
                    IF p.Height # msg.Height THEN Nil ELSE p.CatchupCommit]]

\* Receive, StateChannel, *NewRoundStepMessage: the step for one message.
NewRoundStepReceived(msg) ==
    /\ Becomes(ApplyNewRoundStepMessage(Cur, msg, MaxTime), snap)
    /\ ret' = Ret("ApplyNewRoundStepMessage", ~NRSIgnored(ps, msg), 0)
    /\ UNCHANGED <<env, reactor, wire, gossip, life, rpc>>

ReceiveNewRoundStep == \E msg \in NewRoundStepMessages : NewRoundStepReceived(msg)

----------------------------------------------------------------------------
(* Proposal and block parts *)

PartSetHeaders == [Total : Totals, Hash : {1}]

Proposals ==
    [Height : Heights, Round : Rounds, BlockPartsHeader : PartSetHeaders,
     POLRound : Rounds]

SetHasProposal(st, proposal) ==
    LET p == st.ps
    IN IF p.Height # proposal.Height \/ p.Round # proposal.Round THEN st
       ELSE IF p.Proposal THEN st
       ELSE StoreNew(
              [st EXCEPT !.ps =
                 [p EXCEPT !.Proposal = TRUE,
                           !.ProposalBlockPartsHeader = proposal.BlockPartsHeader,
                           !.ProposalPOLRound = proposal.POLRound,
                           !.ProposalPOL = Nil]],
              "ProposalBlockParts", NewBits(proposal.BlockPartsHeader.Total))

SetHasProposalBlockPart(st, height, round, index) ==
    IF st.ps.Height # height \/ st.ps.Round # round THEN st
    ELSE SetIndexAt(st, st.ps.ProposalBlockParts, index)

\* The part bit-arrays a decoded CommitStepMessage can carry: nil or 1..MaxParts bits.
MsgParts == UNION {BitSeqs(n) : n \in 0..MaxParts}

\* The vote bit-arrays a decoded message can carry: nil or 1..MaxBits bits.
MsgBits == UNION {VoterBits(n) : n \in 0..MaxBits}

CommitStepMessages ==
    [Height : Heights, BlockPartsHeader : PartSetHeaders, BlockParts : MsgParts]

ApplyCommitStepMessage(st, msg) ==
    IF st.ps.Height # msg.Height THEN st
    ELSE StoreNew([st EXCEPT !.ps.ProposalBlockPartsHeader = msg.BlockPartsHeader],
                  "ProposalBlockParts", msg.BlockParts)

ProposalPOLMessages ==
    [Height : Heights, ProposalPOLRound : 0..MaxRound, ProposalPOL : MsgBits]

ApplyProposalPOLMessage(st, msg) ==
    IF st.ps.Height # msg.Height THEN st
    ELSE IF st.ps.ProposalPOLRound # msg.ProposalPOLRound THEN st
    ELSE StoreNew(st, "ProposalPOL", msg.ProposalPOL)

\* Receive, DataChannel, *ProposalMessage
ReceiveProposal ==
    /\ env \in {"data", "votes"}
    /\ \E proposal \in Proposals :
        /\ Becomes(SetHasProposal(Cur, proposal), snap)
        /\ ret' = Ret("other", TRUE, 0)
        /\ UNCHANGED <<env, reactor, wire, gossip, life, rpc>>

\* Receive, DataChannel, *BlockPartMessage
ReceiveBlockPart ==
    /\ env \in {"data"}
    /\ \E height \in Heights, round \in Rounds, index \in 0..MaxParts :
        /\ Becomes(SetHasProposalBlockPart(Cur, height, round, index), snap)
        /\ ret' = Ret("other", TRUE, 0)
        /\ UNCHANGED <<env, reactor, wire, gossip, life, rpc>>

\* Receive, StateChannel, *CommitStepMessage
ReceiveCommitStep ==
    /\ env \in {"data"}
    /\ \E msg \in CommitStepMessages :
        /\ Becomes(ApplyCommitStepMessage(Cur, msg), snap)
        /\ ret' = Ret("other", TRUE, 0)
        /\ UNCHANGED <<env, reactor, wire, gossip, life, rpc>>

\* Receive, DataChannel, *ProposalPOLMessage
ReceiveProposalPOL ==
    /\ env \in {"votes"}
    /\ \E msg \in ProposalPOLMessages :
        /\ Becomes(ApplyProposalPOLMessage(Cur, msg), snap)
        /\ ret' = Ret("other", TRUE, 0)
        /\ UNCHANGED <<env, reactor, wire, gossip, life, rpc>>

----------------------------------------------------------------------------
(* Votes *)

\* The field getVoteBitArray returns for (height, round, type_), "" for nil.
VoteBitArrayField(p, height, round, type_) ==
    IF p.Height = height
    THEN IF p.Round = round
         THEN (IF type_ = VoteTypePrevote THEN "Prevotes" ELSE "Precommits")
         ELSE IF p.CatchupCommitRound = round
         THEN (IF type_ = VoteTypePrevote THEN "" ELSE "CatchupCommit")
         ELSE IF p.ProposalPOLRound = round
         THEN (IF type_ = VoteTypePrevote THEN "ProposalPOL" ELSE "")
         ELSE ""
    ELSE IF p.Height = height + 1
    THEN IF p.LastCommitRound = round
         THEN (IF type_ = VoteTypePrevote THEN "" ELSE "LastCommit")
         ELSE ""
    ELSE ""

getVoteBitArray(p, height, round, type_) ==
    LET f == VoteBitArrayField(p, height, round, type_)
    IN IF f = "" THEN Nil ELSE p[f]

\* A variant that gives CatchupCommit a copy of Precommits rather than the
\* instance, which C6 tells from the code's.
ensureCatchupCommitRoundCopying(st, height, round, numValidators) ==
    LET p == st.ps
    IN IF p.Height # height THEN st
       ELSE IF p.CatchupCommitRound = round THEN st
       ELSE StoreNew([st EXCEPT !.ps.CatchupCommitRound = round],
                     "CatchupCommit",
                     IF round = p.Round /\ p.Precommits # Nil
                     THEN st.heap[p.Precommits]
                     ELSE NewBits(numValidators))

ensureCatchupCommitRound(st, height, round, numValidators) ==
    LET p == st.ps
    IN IF p.Height # height THEN st
       ELSE IF p.CatchupCommitRound = round THEN st
       ELSE IF round = p.Round
       THEN [st EXCEPT !.ps.CatchupCommitRound = round,
                       !.ps.CatchupCommit = p.Precommits]
       ELSE StoreNew([st EXCEPT !.ps.CatchupCommitRound = round],
                     "CatchupCommit", NewBits(numValidators))

\* (s is st, evaluated once)
EnsureField(st, f, numValidators) ==
    CHOOSE r \in {IF s.ps[f] = Nil THEN StoreNew(s, f, NewBits(numValidators)) ELSE s :
                    s \in {st}} : TRUE

ensureVoteBitArrays(st, height, numValidators) ==
    IF st.ps.Height = height
    THEN EnsureField(
           EnsureField(
             EnsureField(
               EnsureField(st, "Prevotes", numValidators),
               "Precommits", numValidators),
             "CatchupCommit", numValidators),
           "ProposalPOL", numValidators)
    ELSE IF st.ps.Height = height + 1
    THEN EnsureField(st, "LastCommit", numValidators)
    ELSE st

setHasVote(st, height, round, type_, index) ==
    SetIndexAt(st, getVoteBitArray(st.ps, height, round, type_), index)

SetHasVote(st, vote) ==
    setHasVote(st, vote.Height, vote.Round, vote.Type, vote.ValidatorIndex)

\* The votes and HasVote messages a peer can send.
Votes ==
    [Height : Heights, Round : 0..MaxRound, Type : VoteTypes,
     ValidatorIndex : Indices]

ApplyHasVoteMessage(st, msg) ==
    IF st.ps.Height # msg.Height THEN st
    ELSE setHasVote(st, msg.Height, msg.Round, msg.Type, msg.ValidatorIndex)

\* Receive, StateChannel, *HasVoteMessage
ReceiveHasVote ==
    /\ env \in {"votes"}
    /\ \E msg \in Votes :
        /\ Becomes(ApplyHasVoteMessage(Cur, msg), snap)
        /\ ret' = Ret("other", TRUE, 0)
        /\ UNCHANGED <<env, reactor, wire, gossip, life, rpc>>

\* Receive, VoteChannel, *VoteMessage: the two EnsureVoteBitArrays calls, the
\* local node being at `height`.
ReceiveVoteEnsured(st, height) ==
    ensureVoteBitArrays(
      ensureVoteBitArrays(st, height, NumValidators(height)),
      height - 1, LastCommitSize(height))

\* Receive, VoteChannel, *VoteMessage: the peer state part.
ReceiveVoteApply(st, vote, height) ==
    SetHasVote(ReceiveVoteEnsured(st, height), vote)

\* The step for one vote, the local node being at `height`.
VoteReceived(vote, height) ==
    /\ Becomes(ReceiveVoteApply(Cur, vote, height), snap)
    /\ ret' = Ret("SetHasVote", TRUE, 0)
    /\ UNCHANGED <<env, reactor, wire, gossip, life, rpc>>

ReceiveVote ==
    /\ env \in {"votes", "readers"}
    /\ \E vote \in Votes, height \in Heights : VoteReceived(vote, height)

\* The VoteSetBits messages a peer can send (the BlockID only selects ourVotes).
VoteSetBitsMessages ==
    {m \in [Height : Heights, Round : 0..MaxRound, Type : VoteTypes,
            Votes : MsgBits \ {<<>>}] :
        Len(m.Votes) = NumValidators(m.Height)}

\* A variant that overwrites the peer's bits with msg.Votes whatever ourVotes is,
\* which C16 tells from the code's.
ApplyVoteSetBitsMessageOverwriting(st, msg, ourVotes) ==
    LET votes == getVoteBitArray(st.ps, msg.Height, msg.Round, msg.Type)
    IN IF votes = Nil THEN st
       ELSE [st EXCEPT !.heap[votes] = UpdateVal(@, msg.Votes)]

\* ourVotes is <<>> for nil.
ApplyVoteSetBitsMessage(st, msg, ourVotes) ==
    LET votes == getVoteBitArray(st.ps, msg.Height, msg.Round, msg.Type)
    IN IF votes = Nil THEN st
       ELSE IF ourVotes = <<>>
       THEN [st EXCEPT !.heap[votes] = UpdateVal(@, msg.Votes)]
       ELSE LET otherVotes == SubVal(st.heap[votes], ourVotes)
                hasVotes == OrVal(otherVotes, msg.Votes)
            IN [st EXCEPT !.heap[votes] = UpdateVal(@, hasVotes)]

\* Receive, VoteSetBitsChannel, *VoteSetBitsMessage: ourVotes is the local bit-array
\* for the message's BlockID when the local height is the message's (nil when there
\* is none), nil otherwise.
VoteSetBitsReceived(msg, ourVotes) ==
    /\ Becomes(ApplyVoteSetBitsMessage(Cur, msg, ourVotes), snap)
    /\ ret' = Ret("ApplyVoteSetBitsMessage", TRUE, 0)
    /\ UNCHANGED <<env, reactor, wire, gossip, life, rpc>>

\* The local bit-arrays BitArrayByBlockID can return for a message: nil, or one of
\* the size of the validator set of the message's height.
OurVotes(msg) == {<<>>} \cup VoterBits(NumValidators(msg.Height))

ReceiveVoteSetBits ==
    /\ env \in {"votes"}
    /\ \E msg \in VoteSetBitsMessages :
       \E ourVotes \in OurVotes(msg) : VoteSetBitsReceived(msg, ourVotes)

----------------------------------------------------------------------------
(* PickVoteToSend *)

\* A nil *VoteSet or *Commit: Size() is 0.
NilVoteSet == [Height |-> 0, Round |-> -1, Type |-> 0, Bits |-> <<>>, IsCommit |-> FALSE]

\* The types.VoteSetReader values of the local node: a vote set of a height has the
\* size of that height's validator set; a commit is a precommit set with votes.
VoteSets ==
    {NilVoteSet} \cup
    {v \in [Height : Heights, Round : 0..MaxRound, Type : VoteTypes,
            Bits : UNION {VoterBits(NumValidators(h)) : h \in Heights},
            IsCommit : BOOLEAN] :
        /\ Len(v.Bits) = NumValidators(v.Height)
        /\ v.IsCommit => (v.Type = VoteTypePrecommit /\ SetBits(v.Bits) # {})}

\* "Lazily set data using 'votes'."
PickPrepared(st, votes) ==
    ensureVoteBitArrays(
      IF votes.IsCommit
      THEN ensureCatchupCommitRound(st, votes.Height, votes.Round, Len(votes.Bits))
      ELSE st,
      votes.Height, Len(votes.Bits))

\* votes.BitArray().Sub(psVotes): the indices PickRandom can return.
PickWanted(st, votes) ==
    LET psVotes == getVoteBitArray(st.ps, votes.Height, votes.Round, votes.Type)
    IN IF psVotes = Nil THEN {} ELSE SetBits(SubVal(votes.Bits, st.heap[psVotes]))

\* A variant that returns the vote without marking it, which C40 tells from
\* the code's.
PickPickedUnmarked(st, votes, index) == st

\* PickVoteToSend returning (votes.GetByIndex(index), true).
PickPicked(st, votes, index) ==
    setHasVote(st, votes.Height, votes.Round, votes.Type, index)

\* One call PickVoteToSend(votes); ret is (ok, the index of the vote returned).
VoteSetPicked(votes) ==
    /\ IF Len(votes.Bits) = 0
       THEN Becomes(Cur, snap) /\ ret' = Ret("PickVoteToSend", FALSE, 0)
       ELSE LET st1 == PickPrepared(Cur, votes)
                want == PickWanted(st1, votes)
            IN IF want = {}
               THEN Becomes(st1, snap) /\ ret' = Ret("PickVoteToSend", FALSE, 0)
               ELSE \E index \in want :
                      /\ Becomes(PickPicked(st1, votes, index), snap)
                      /\ ret' = Ret("PickVoteToSend", TRUE, index)
    /\ UNCHANGED <<env, reactor, wire, gossip, life, rpc>>

PickVoteToSend ==
    /\ env \in {"votes"}
    /\ \E votes \in VoteSets : VoteSetPicked(votes)

----------------------------------------------------------------------------
(* GetRoundState and its readers *)

\* "prs := ps.PeerRoundState // copy": the struct is copied, its pointers with it.
GetRoundState(p) == [held |-> TRUE, prs |-> p]

ReaderGetsRoundState ==
    /\ env \in {"readers"}
    /\ Becomes(Cur, GetRoundState(ps))
    /\ ret' = Ret("GetRoundState", TRUE, 0)
    /\ UNCHANGED <<env, reactor, wire, gossip, life, rpc>>

\* The holder of a GetRoundState result calls SetIndex on one of its bit-arrays.
ReaderSetsIndex ==
    /\ env \in {"readers"}
    /\ snap.held
    /\ \E i \in 1..6, index \in Voters :
        /\ snap.prs[PtrFields[i]] # Nil
        /\ Becomes(SetIndexAt(Cur, snap.prs[PtrFields[i]], index), snap)
    /\ ret' = Ret("reader", TRUE, 0)
    /\ UNCHANGED <<env, reactor, wire, gossip, life, rpc>>

\* The holder drops the result.
ReaderDrops ==
    /\ env \in {"readers"}
    /\ snap.held
    /\ Becomes(Cur, NoSnap)
    /\ ret' = Ret("other", TRUE, 0)
    /\ UNCHANGED <<env, reactor, wire, gossip, life, rpc>>

----------------------------------------------------------------------------
(* Wire frames and DecodeMessage *)

StateChannel == 32          \* byte(0x20)
DataChannel == 33           \* byte(0x21)
VoteChannel == 34           \* byte(0x22)
VoteSetBitsChannel == 35    \* byte(0x23)

maxConsensusMessageSize == 1048576

msgTypeNewRoundStep == 1    \* byte(0x01)
msgTypeCommitStep == 2      \* byte(0x02)
msgTypeProposal == 17       \* byte(0x11)
msgTypeProposalPOL == 18    \* byte(0x12)
msgTypeBlockPart == 19      \* byte(0x13)
msgTypeVote == 20           \* byte(0x14)
msgTypeHasVote == 21        \* byte(0x15)
msgTypeVoteSetMaj23 == 22   \* byte(0x16)
msgTypeVoteSetBits == 23    \* byte(0x17)
msgTypeProposalHeartbeat == 32  \* byte(0x20)

\* msgInfo values peerMsgQueue holds before Receive blocks on it.
MaxQueue == 1

\* A frame is the byte sequence a peer sent: <<>> when it is empty, otherwise
\* <<tag, fields, blob>>: the type byte, the encoded fields that follow it in
\* order, and the length of the byte slice (the bytes of a block part) that
\* ends it.
FrameSize(bz) == IF bz = <<>> THEN 0 ELSE 1 + Len(bz[2]) + bz[3]

\* The concrete types wire.RegisterInterface registers, with the number of
\* fields the decoder reads for each.
NumFields ==
    [t \in {msgTypeNewRoundStep, msgTypeCommitStep, msgTypeProposal,
            msgTypeProposalPOL, msgTypeBlockPart, msgTypeVote, msgTypeHasVote,
            msgTypeVoteSetMaj23, msgTypeVoteSetBits, msgTypeProposalHeartbeat} |->
        CASE t = msgTypeNewRoundStep -> 5
          [] t = msgTypeCommitStep -> 4
          [] t = msgTypeProposal -> 5
          [] t = msgTypeProposalPOL -> 3
          [] t = msgTypeBlockPart -> 3
          [] t = msgTypeVote -> 4
          [] t = msgTypeHasVote -> 4
          [] t = msgTypeVoteSetMaj23 -> 4
          [] t = msgTypeVoteSetBits -> 5
          [] t = msgTypeProposalHeartbeat -> 2]

\* The message a well-formed frame decodes to.  msgType stands for the Go type
\* of the value, which Receive switches on.
DecodedMessage(t, f) ==
    CASE t = msgTypeNewRoundStep ->
            [msgType |-> t, Height |-> f[1], Round |-> f[2], Step |-> f[3],
             SecondsSinceStartTime |-> f[4], LastCommitRound |-> f[5]]
      [] t = msgTypeCommitStep ->
            [msgType |-> t, Height |-> f[1],
             BlockPartsHeader |-> [Total |-> f[2], Hash |-> f[3]],
             BlockParts |-> f[4]]
      [] t = msgTypeProposal ->
            [msgType |-> t, Height |-> f[1], Round |-> f[2],
             BlockPartsHeader |-> [Total |-> f[3], Hash |-> f[4]],
             POLRound |-> f[5]]
      [] t = msgTypeProposalPOL ->
            [msgType |-> t, Height |-> f[1], ProposalPOLRound |-> f[2],
             ProposalPOL |-> f[3]]
      [] t = msgTypeBlockPart ->
            [msgType |-> t, Height |-> f[1], Round |-> f[2], Index |-> f[3]]
      [] t = msgTypeVote ->
            [msgType |-> t, Height |-> f[1], Round |-> f[2], Type |-> f[3],
             ValidatorIndex |-> f[4]]
      [] t = msgTypeHasVote ->
            [msgType |-> t, Height |-> f[1], Round |-> f[2], Type |-> f[3],
             ValidatorIndex |-> f[4]]
      [] t = msgTypeVoteSetMaj23 ->
            [msgType |-> t, Height |-> f[1], Round |-> f[2], Type |-> f[3],
             BlockID |-> f[4]]
      [] t = msgTypeVoteSetBits ->
            [msgType |-> t, Height |-> f[1], Round |-> f[2], Type |-> f[3],
             BlockID |-> f[4], Votes |-> f[5]]
      [] t = msgTypeProposalHeartbeat ->
            [msgType |-> t, Height |-> f[1], Round |-> f[2]]

NoMessage == [msgType |-> 0]

\* DecodeMessage(bz): "panic" when bz[0] is out of range; "error" from
\* wire.ReadBinary for an unregistered type byte, a frame over
\* maxConsensusMessageSize and a frame that ends before the last field; bytes
\* after the last field are not looked at.
DecodeMessage(bz) ==
    IF Len(bz) = 0
    THEN [outcome |-> "panic", msg |-> NoMessage]
    ELSE IF bz[1] \notin DOMAIN NumFields
    THEN [outcome |-> "error", msg |-> NoMessage]
    ELSE IF FrameSize(bz) > maxConsensusMessageSize
    THEN [outcome |-> "error", msg |-> NoMessage]
    ELSE IF Len(bz[2]) < NumFields[bz[1]]
    THEN [outcome |-> "error", msg |-> NoMessage]
    ELSE [outcome |-> "ok", msg |-> DecodedMessage(bz[1], bz[2])]

----------------------------------------------------------------------------
(* Receive *)

\* types.IsVoteTypeValid
IsVoteTypeValid(type_) == type_ \in {VoteTypePrevote, VoteTypePrecommit}

\* The vote type bytes a peer can encode: the two vote types and one other.
WireVoteTypes == {0} \cup VoteTypes

\* What one call of Receive did: the peer state it left, whether it ended in a
\* panic, and the calls it made on the consensus core and on the peer, in
\* order, the panic last.
Outcome(st, panic, calls) == [st |-> st, panic |-> panic, calls |-> calls]

SetPeerMaj23Call(msg) ==
    [call |-> "SetPeerMaj23", Round |-> msg.Round, Type |-> msg.Type,
     BlockID |-> msg.BlockID]

TrySendCall(chID, msg) == [call |-> "TrySend", chID |-> chID, msg |-> msg]

EnqueueCall(msg) == [call |-> "peerMsgQueue", msg |-> msg]

\* A panic, by the function that raises it.
PanicCall(where) == [call |-> "panic", where |-> where]

\* case StateChannel.  `height` is cs.Height, `ourVotes` what the core's vote
\* set gives for the message's BlockID (<<>> for nil).
ReceiveStateChannel(st, msg, height, ourVotes) ==
    CASE msg.msgType = msgTypeNewRoundStep ->
            Outcome(ApplyNewRoundStepMessage(st, msg, MaxTime), FALSE, <<>>)
      [] msg.msgType = msgTypeCommitStep ->
            Outcome(ApplyCommitStepMessage(st, msg), FALSE, <<>>)
      [] msg.msgType = msgTypeHasVote ->
            IF st.ps.Height # msg.Height THEN Outcome(st, FALSE, <<>>)
            ELSE IF ~IsVoteTypeValid(msg.Type)
            THEN Outcome(st, TRUE, <<PanicCall("getVoteBitArray")>>)
            ELSE Outcome(ApplyHasVoteMessage(st, msg), FALSE, <<>>)
      [] msg.msgType = msgTypeVoteSetMaj23 ->
            IF height # msg.Height THEN Outcome(st, FALSE, <<>>)
            ELSE IF ~IsVoteTypeValid(msg.Type)
            THEN Outcome(st, FALSE, <<SetPeerMaj23Call(msg)>>)
            ELSE Outcome(st, FALSE,
                   <<SetPeerMaj23Call(msg),
                     TrySendCall(VoteSetBitsChannel,
                       [msgType |-> msgTypeVoteSetBits, Height |-> msg.Height,
                        Round |-> msg.Round, Type |-> msg.Type,
                        BlockID |-> msg.BlockID, Votes |-> ourVotes])>>)
      [] OTHER -> Outcome(st, FALSE, <<>>)

\* A variant that has not updated the peer state when it sends to
\* peerMsgQueue, which C30 tells from the code's.
ReceiveDataChannelQueueingFirst(st, msg) ==
    CASE msg.msgType = msgTypeProposal -> Outcome(st, FALSE, <<EnqueueCall(msg)>>)
      [] msg.msgType = msgTypeProposalPOL ->
            Outcome(ApplyProposalPOLMessage(st, msg), FALSE, <<>>)
      [] msg.msgType = msgTypeBlockPart -> Outcome(st, FALSE, <<EnqueueCall(msg)>>)
      [] OTHER -> Outcome(st, FALSE, <<>>)

\* case DataChannel
ReceiveDataChannel(st, msg) ==
    CASE msg.msgType = msgTypeProposal ->
            Outcome(SetHasProposal(st, msg), FALSE, <<EnqueueCall(msg)>>)
      [] msg.msgType = msgTypeProposalPOL ->
            Outcome(ApplyProposalPOLMessage(st, msg), FALSE, <<>>)
      [] msg.msgType = msgTypeBlockPart ->
            Outcome(SetHasProposalBlockPart(st, msg.Height, msg.Round, msg.Index),
                    FALSE, <<EnqueueCall(msg)>>)
      [] OTHER -> Outcome(st, FALSE, <<>>)

\* case VoteChannel: getVoteBitArray panics after the two EnsureVoteBitArrays.
ReceiveVoteChannel(st, msg, height) ==
    IF msg.msgType # msgTypeVote THEN Outcome(st, FALSE, <<>>)
    ELSE IF ~IsVoteTypeValid(msg.Type)
    THEN Outcome(ReceiveVoteEnsured(st, height), TRUE,
                 <<PanicCall("getVoteBitArray")>>)
    ELSE Outcome(ReceiveVoteApply(st, msg, height), FALSE, <<EnqueueCall(msg)>>)

\* case VoteSetBitsChannel
ReceiveVoteSetBitsChannel(st, msg, height, ourVotes) ==
    IF msg.msgType # msgTypeVoteSetBits THEN Outcome(st, FALSE, <<>>)
    ELSE IF height = msg.Height
    THEN IF ~IsVoteTypeValid(msg.Type) THEN Outcome(st, FALSE, <<>>)
         ELSE Outcome(ApplyVoteSetBitsMessage(st, msg, ourVotes), FALSE, <<>>)
    ELSE IF ~IsVoteTypeValid(msg.Type)
    THEN Outcome(st, TRUE, <<PanicCall("getVoteBitArray")>>)
    ELSE Outcome(ApplyVoteSetBitsMessage(st, msg, <<>>), FALSE, <<>>)

\* A variant that lets the Data channel through, which C14 tells from the code's.
DroppedInFastSyncVotesOnly(fs, chID) ==
    fs /\ chID \in {VoteChannel, VoteSetBitsChannel}

\* The fastSync test of the three channels that have one.
DroppedInFastSync(fs, chID) ==
    fs /\ chID \in {DataChannel, VoteChannel, VoteSetBitsChannel}

\* Receive(chID, src, msgBytes) on the peer state st, the reactor's flags being
\* running and fs and the core's height and votes being height and ourVotes.
ReceiveOutcome(st, running, fs, chID, bz, height, ourVotes) ==
    IF ~running THEN Outcome(st, FALSE, <<>>)
    ELSE LET d == DecodeMessage(bz)
         IN IF d.outcome = "panic"
            THEN Outcome(st, TRUE, <<PanicCall("DecodeMessage")>>)
            ELSE IF d.outcome = "error" THEN Outcome(st, FALSE, <<>>)
            ELSE IF DroppedInFastSync(fs, chID) THEN Outcome(st, FALSE, <<>>)
            ELSE CASE chID = StateChannel ->
                        ReceiveStateChannel(st, d.msg, height, ourVotes)
                   [] chID = DataChannel -> ReceiveDataChannel(st, d.msg)
                   [] chID = VoteChannel -> ReceiveVoteChannel(st, d.msg, height)
                   [] chID = VoteSetBitsChannel ->
                        ReceiveVoteSetBitsChannel(st, d.msg, height, ourVotes)
                   [] OTHER -> Outcome(st, FALSE, <<>>)

\* The msgInfo values a call put on peerMsgQueue, in order.
Enqueued(calls) ==
    LET q == SelectSeq(calls, LAMBDA c : c.call = "peerMsgQueue")
    IN [i \in 1..Len(q) |-> q[i].msg]

\* The names of the calls, in order.
CallNames(calls) == [i \in 1..Len(calls) |-> calls[i].call]

----------------------------------------------------------------------------

\* No connection hands frames over one by one, and no gossip routine runs.
NoWire == recv = <<>> /\ taken = <<>>
NoGossip == rs = <<>> /\ peerB = <<>> /\ net = <<>> /\ lossy = FALSE

\* The reactor and the peer are running, with the listeners registered and the
\* PeerState made; the routines are not followed step by step, and no block is
\* stored.
Started ==
    /\ isRunning = TRUE
    /\ registered = TRUE
    /\ peerRunning = TRUE
    /\ peerData = TRUE
    /\ loc = <<>>
    /\ woke = {}
    /\ blockStore = <<>>
    /\ mtx = {}

\* No call of BroadcastTxCommit has been made.
NoCall == [at |-> "none"]

\* No transaction is in progress.
NoRpc ==
    /\ next = "EventBus"
    /\ events = <<>>
    /\ published = <<>>
    /\ call = NoCall
    /\ clock = 0

Init ==
    /\ ps = NewPeerState
    /\ heap = <<>>
    /\ env \in Envs
    /\ snap = NoSnap
    /\ ret = Ret("NewPeerState", TRUE, 0)
    /\ fastSync = FALSE
    /\ peerMsgQueue = <<>>
    /\ effects = <<>>
    /\ NoWire
    /\ NoGossip
    /\ Started
    /\ conS = "running"
    /\ NoRpc

Next ==
    \/ ReceiveNewRoundStep
    \/ ReceiveProposal
    \/ ReceiveBlockPart
    \/ ReceiveCommitStep
    \/ ReceiveProposalPOL
    \/ ReceiveHasVote
    \/ ReceiveVote
    \/ ReceiveVoteSetBits
    \/ PickVoteToSend
    \/ ReaderGetsRoundState
    \/ ReaderSetsIndex
    \/ ReaderDrops

Spec == Init /\ [][Next]_vars

----------------------------------------------------------------------------
(* The reactor receiving frames: a second specification, in which the frames  *)
(* are whatever bytes the peer wrote, the reactor may be fast-syncing or      *)
(* stopped, and peerMsgQueue fills until the consensus core takes from it.    *)

\* The rounds the frames of this specification name.
WireRounds == 0..0

\* The encodings of the messages a peer sends, by type.
NewRoundStepFrames ==
    {<<msgTypeNewRoundStep,
       <<m.Height, m.Round, m.Step, m.SecondsSinceStartTime, m.LastCommitRound>>, 0>> :
        m \in {n \in NewRoundStepMessages : n.Round \in WireRounds}}

CommitStepFrames ==
    {<<msgTypeCommitStep, <<h, 0, 1, <<>>>>, 0>> : h \in Heights}

ProposalFrames ==
    {<<msgTypeProposal, <<h, r, 0, 1, -1>>, 0>> : h \in Heights, r \in WireRounds}

ProposalPOLFrames ==
    {<<msgTypeProposalPOL, <<h, r, NewBits(NumValidators(h))>>, 0>> :
        h \in Heights, r \in WireRounds}

\* A block part ends in the bytes of the part.
BlockPartFrames ==
    {<<msgTypeBlockPart, <<h, r, 0>>, 1>> : h \in Heights, r \in WireRounds}

VoteFrames ==
    {<<msgTypeVote, <<h, r, t, i>>, 0>> :
        h \in Heights, r \in WireRounds, t \in WireVoteTypes, i \in Voters}

HasVoteFrames ==
    {<<msgTypeHasVote, <<h, r, t, i>>, 0>> :
        h \in Heights, r \in WireRounds, t \in WireVoteTypes, i \in Voters}

VoteSetMaj23Frames ==
    {<<msgTypeVoteSetMaj23, <<h, r, t, 1>>, 0>> :
        h \in Heights, r \in WireRounds, t \in WireVoteTypes}

VoteSetBitsFrames ==
    UNION {{<<msgTypeVoteSetBits, <<h, r, t, 1, v>>, 0>> :
               r \in WireRounds, t \in WireVoteTypes,
               v \in VoterBits(NumValidators(h))} : h \in Heights}

ProposalHeartbeatFrames == {<<msgTypeProposalHeartbeat, <<1, 0>>, 0>>}

\* Frames that decode.
DecodableFrames ==
    NewRoundStepFrames \cup CommitStepFrames \cup ProposalFrames
      \cup ProposalPOLFrames \cup BlockPartFrames \cup VoteFrames
      \cup HasVoteFrames \cup VoteSetMaj23Frames \cup VoteSetBitsFrames
      \cup ProposalHeartbeatFrames

\* Frames that do not: the empty byte sequence, a type byte nothing registers
\* (0xEE), a vote cut short after its first field, and a block part whose bytes
\* pass maxConsensusMessageSize.
UndecodableFrames ==
    {<<>>, <<238, <<>>, 0>>, <<msgTypeVote, <<1>>, 0>>,
     <<msgTypeBlockPart, <<1, 0, 0>>, maxConsensusMessageSize>>}

Frames == DecodableFrames \cup UndecodableFrames

\* The channel ids a frame can arrive on: the four of the reactor and one other (0xEE).
ChannelIDs == {StateChannel, DataChannel, VoteChannel, VoteSetBitsChannel, 238}

\* What Receive reads from the consensus core for a frame on a channel:
\* cs.Height, and the bit-array its vote set holds for the BlockID (<<>> for
\* nil).  A vote makes it read the height, a VoteSetMaj23 and a VoteSetBits
\* both; nothing else makes it read the core.
CoreViews(chID, bz) ==
    IF bz = <<>> THEN {<<1, <<>>>>}
    ELSE IF chID = VoteChannel /\ bz[1] = msgTypeVote
    THEN {<<h, <<>>>> : h \in Heights}
    ELSE IF \/ chID = StateChannel /\ bz[1] = msgTypeVoteSetMaj23
            \/ chID = VoteSetBitsChannel /\ bz[1] = msgTypeVoteSetBits
    THEN UNION {{<<h, v>> : v \in {<<>>} \cup VoterBits(NumValidators(h))} :
                  h \in Heights}
    ELSE {<<1, <<>>>>}

\* The frames that reach a reactor that is not running.
StoppedFrames == {<<>>} \cup NewRoundStepFrames \cup ProposalFrames

\* The reactor has panicked in Receive for this peer; the connection's receive
\* routine has ended with it.
Panicked == ret.op = "Receive" /\ ~ret.ok

\* One call of Receive.  The call blocks while peerMsgQueue is full, and its
\* effects appear together when it returns.
FrameReceived(running, chID, bz, height, ourVotes) ==
    LET r == ReceiveOutcome(Cur, running, fastSync, chID, bz, height, ourVotes)
    IN /\ Len(peerMsgQueue) + Len(Enqueued(r.calls)) <= MaxQueue
       /\ Becomes(r.st, snap)
       /\ ret' = Ret("Receive", ~r.panic, 0)
       /\ peerMsgQueue' = peerMsgQueue \o Enqueued(r.calls)
       /\ effects' = r.calls
       /\ UNCHANGED <<env, fastSync, wire, gossip, life, rpc>>

Receive ==
    /\ env = "receive"
    /\ ~Panicked
    /\ \E running \in BOOLEAN, chID \in ChannelIDs :
         \E bz \in IF running THEN Frames ELSE StoppedFrames :
            \E view \in CoreViews(chID, bz) :
               FrameReceived(running, chID, bz, view[1], view[2])

\* SwitchToConsensus: the blockchain reactor has caught up.
SwitchToConsensus ==
    /\ env \in {"receive", "routines"}
    /\ isRunning
    /\ fastSync
    /\ fastSync' = FALSE
    /\ conS' = IF conS = "new" THEN "running" ELSE conS
    /\ ret' = IF Panicked THEN ret ELSE Ret("SwitchToConsensus", TRUE, 0)
    /\ UNCHANGED <<ps, heap, env, snap, peerMsgQueue, effects, wire, gossip,
                   isRunning, registered, peerRunning, peerData, loc, woke,
                   blockStore, mtx, rpc>>

\* The consensus core's receiveRoutine takes the head of peerMsgQueue.
CoreTakesMsg ==
    /\ env \in {"receive", "queue"}
    /\ peerMsgQueue # <<>>
    /\ peerMsgQueue' = Tail(peerMsgQueue)
    /\ taken' = IF env = "queue" THEN Append(taken, Head(peerMsgQueue)) ELSE taken
    /\ UNCHANGED <<ps, heap, env, snap, ret, fastSync, effects, recv, gossip, life, rpc>>

InitReceive ==
    /\ ps = NewPeerState
    /\ heap = <<>>
    /\ env = "receive"
    /\ snap = NoSnap
    /\ ret = Ret("NewPeerState", TRUE, 0)
    /\ fastSync \in BOOLEAN
    /\ peerMsgQueue = <<>>
    /\ effects = <<>>
    /\ NoWire
    /\ NoGossip
    /\ Started
    /\ conS = (IF fastSync THEN "new" ELSE "running")
    /\ NoRpc

NextReceive ==
    \/ Receive
    \/ SwitchToConsensus
    \/ CoreTakesMsg

SpecReceive == InitReceive /\ [][NextReceive]_vars

----------------------------------------------------------------------------
(* The connections of two peers handing frames to Receive: a third            *)
(* specification.  Each connection has one receive routine, which calls       *)
(* Receive for one frame at a time; Receive blocks on peerMsgQueue while it   *)
(* is full.  ps is the PeerState of peer 1, which its gossip routine also     *)
(* works on; the PeerState of peer 2 is left out.                             *)

Peers == {1, 2}

\* Frames a connection carries before it goes quiet.
MaxInbox == 2

\* The channel a peer sends a message type on.
ChannelOf(t) ==
    CASE t \in {msgTypeProposal, msgTypeProposalPOL, msgTypeBlockPart} -> DataChannel
      [] t = msgTypeVote -> VoteChannel
      [] t = msgTypeVoteSetBits -> VoteSetBitsChannel
      [] OTHER -> StateChannel

\* The frames the two peers send: a proposal, a block part, a prevote and a
\* HasVote (which peerMsgQueue never sees), all of the first height.
InboxFrames ==
    {bz \in ProposalFrames \cup BlockPartFrames : bz[2][1] = 1}
      \cup {bz \in VoteFrames \cup HasVoteFrames :
               bz[2][1] = 1 /\ bz[2][3] = VoteTypePrevote}

Inboxes == UNION {[1..n -> InboxFrames] : n \in 0..MaxInbox}

\* Frames peer 1 sends besides: a proposal of one part with a POL round, and
\* the prevotes of that round, of which it has the first.
POLInboxFrames ==
    {<<msgTypeProposal, <<1, 0, 1, 1, 0>>, 0>>,
     <<msgTypeProposalPOL,
       <<1, 0, [i \in 1..NumValidators(1) |-> i = 1]>>, 0>>}

InboxesOfPeer(p) ==
    IF p = 1
    THEN UNION {[1..n -> InboxFrames \cup POLInboxFrames] : n \in 0..MaxInbox}
    ELSE Inboxes

msgInfo(msg, peerKey) == [Msg |-> msg, PeerKey |-> peerKey]

\* A variant in which Receive is called for the next frame while the last
\* call is still blocked, which C17 tells from the code's.
ReceiveReentered(c) == TRUE

\* A connection calls Receive when its last call has returned.
ReceiveReturned(c) == c.sending = <<>>

\* "peerMsgQueue <- msgInfo": a channel keeps the order of its sends.
QueuePut(q, mi) == Append(q, mi)

\* Receive for the next frame of peer p, up to its send to peerMsgQueue; the
\* core is at `height`.
PeerFrameReceived(p, height) ==
    LET c == recv[p]
        bz == Head(c.inbox)
        st == IF p = 1 THEN Cur ELSE [ps |-> NewPeerState, heap |-> <<>>]
        r == ReceiveOutcome(st, TRUE, fastSync, ChannelOf(bz[1]), bz, height, <<>>)
        q == Enqueued(r.calls)
    IN /\ IF p = 1 THEN Becomes(r.st, snap) ELSE UNCHANGED <<ps, heap, snap>>
       /\ ret' = Ret("Receive", ~r.panic, p)
       /\ effects' = r.calls
       /\ recv' = [recv EXCEPT ![p] =
                     [inbox |-> Tail(c.inbox),
                      delivered |-> Append(c.delivered, bz),
                      sending |-> c.sending \o [i \in 1..Len(q) |-> msgInfo(q[i], p)]]]
       /\ UNCHANGED <<env, fastSync, peerMsgQueue, taken, gossip, life, rpc>>

PeerReceive ==
    /\ env = "queue"
    /\ \E p \in Peers :
         /\ recv[p].inbox # <<>>
         /\ ReceiveReturned(recv[p])
         /\ \E height \in Heights : PeerFrameReceived(p, height)

\* The send of a blocked Receive goes through, and Receive returns.
PeerEnqueues ==
    /\ env = "queue"
    /\ Len(peerMsgQueue) < MaxQueue
    /\ \E p \in Peers :
         \E i \in 1..Len(recv[p].sending) :
            /\ peerMsgQueue' = QueuePut(peerMsgQueue, recv[p].sending[i])
            /\ recv' = [recv EXCEPT ![p].sending =
                          SubSeq(@, 1, i - 1) \o SubSeq(@, i + 1, Len(@))]
            /\ UNCHANGED <<ps, heap, env, snap, ret, fastSync, effects, taken, gossip, life, rpc>>

\* The vote sets the gossip routine of peer 1 picks from meanwhile.
QueueVoteSets ==
    {v \in VoteSets : v.Height = 1 /\ v.Round = 0 /\ ~v.IsCommit /\ SetBits(v.Bits) # {}}

GossipMeanwhile ==
    /\ env = "queue"
    /\ \E votes \in QueueVoteSets : VoteSetPicked(votes)

\* The PeerState of a peer that has announced (height, round, step) and
\* nothing else.
PeerAt(height, round, step) ==
    ApplyNewRoundStepMessage(
      [ps |-> NewPeerState, heap |-> <<>>],
      [Height |-> height, Round |-> round, Step |-> step,
       SecondsSinceStartTime |-> 0, LastCommitRound |-> -1],
      MaxTime).ps

InitQueue ==
    /\ ps = PeerAt(1, 0, RoundStepNewHeight)
    /\ heap = <<>>
    /\ env = "queue"
    /\ snap = NoSnap
    /\ ret = Ret("NewPeerState", TRUE, 0)
    /\ fastSync = FALSE
    /\ peerMsgQueue = <<>>
    /\ effects = <<>>
    /\ recv \in {f \in [Peers -> {[inbox |-> b, delivered |-> <<>>, sending |-> <<>>] :
                                    b \in InboxesOfPeer(1)}] :
                   \A p \in Peers : f[p].inbox \in InboxesOfPeer(p)}
    /\ taken = <<>>
    /\ NoGossip
    /\ Started
    /\ conS = "running"
    /\ NoRpc

NextQueue ==
    \/ PeerReceive
    \/ PeerEnqueues
    \/ CoreTakesMsg
    \/ GossipMeanwhile

SpecQueue == InitQueue /\ [][NextQueue]_vars

----------------------------------------------------------------------------
(* The gossip routines of one peer: a fourth specification.  The local node   *)
(* A stays at one height and round with a proposal, all its parts and some    *)
(* votes; the peer B has announced the same height and round and holds        *)
(* nothing yet.  ps is A's PeerState for B.  What peer.Send accepts reaches   *)
(* B in order; peer.Send blocks while MaxNet messages are on their way.       *)

MaxNet == 2

\* The steps B announces.
GossipSteps == {RoundStepNewHeight, RoundStepPrecommit, RoundStepCommit}

\* The vote bit-arrays A holds for its round at the first height: the vote of
\* the first validator, and any votes of the others.
HeldVotes == {b \in BitSeqs(NumValidators(1)) : b[1]}

\* A's RoundState, A being in the last round: the proposal of its round
\* (POLRound is -1 or an earlier round), the complete part set, and the votes
\* of each round so far.  Of an earlier round A holds every prevote.  At the
\* first height LastCommit is nil.
RoundStates ==
    UNION {
      {[Height |-> 1, Round |-> r, Step |-> RoundStepPrecommit, StartTime |-> 0,
        LastCommit |-> NilVoteSet,
        Proposal |-> [Height |-> 1, Round |-> r,
                      BlockPartsHeader |-> [Total |-> MaxParts, Hash |-> 1],
                      POLRound |-> pol],
        ProposalBlockParts |-> [i \in 1..MaxParts |-> TRUE],
        Votes |-> [q \in 0..r |->
                     IF q = r THEN [Prevotes |-> pv, Precommits |-> pc]
                     ELSE [Prevotes |-> [i \in 1..NumValidators(1) |-> TRUE],
                           Precommits |-> NewBits(NumValidators(1))]]] :
         pol \in (-1)..(r - 1), pv \in HeldVotes, pc \in HeldVotes} :
      r \in {MaxRound}}

\* VoteSet.IsCommit: a precommit set with +2/3 of the validators.
IsCommit(type_, bits) ==
    type_ = VoteTypePrecommit /\ 3 * Cardinality(SetBits(bits)) > 2 * Len(bits)

\* rs.Votes.Prevotes(round) and rs.Votes.Precommits(round) as VoteSetReader.
VoteSetOf(r, round, type_) ==
    LET bits == IF type_ = VoteTypePrevote THEN r.Votes[round].Prevotes
                ELSE r.Votes[round].Precommits
    IN [Height |-> r.Height, Round |-> round, Type |-> type_, Bits |-> bits,
        IsCommit |-> IsCommit(type_, bits)]

\* What peer.Send can return.
SendResults == IF lossy THEN BOOLEAN ELSE {TRUE}

SendCall(chID, msg, ok) == [call |-> "Send", chID |-> chID, msg |-> msg, ok |-> ok]

ProposalMessageOf(r) ==
    [msgType |-> msgTypeProposal, Height |-> r.Proposal.Height,
     Round |-> r.Proposal.Round, BlockPartsHeader |-> r.Proposal.BlockPartsHeader,
     POLRound |-> r.Proposal.POLRound]

ProposalPOLMessageOf(r) ==
    [msgType |-> msgTypeProposalPOL, Height |-> r.Height,
     ProposalPOLRound |-> r.Proposal.POLRound,
     ProposalPOL |-> r.Votes[r.Proposal.POLRound].Prevotes]

BlockPartMessageOf(r, index) ==
    [msgType |-> msgTypeBlockPart, Height |-> r.Height, Round |-> r.Round,
     Index |-> index]

VoteMessageOf(votes, index) ==
    [msgType |-> msgTypeVote, Height |-> votes.Height, Round |-> votes.Round,
     Type |-> votes.Type, ValidatorIndex |-> index]

\* What one iteration of a gossip routine did: the peer state it left, the
\* Send calls it made, in order, and whether it ended in a time.Sleep.
Iteration(st, calls, slept) == [st |-> st, calls |-> calls, slept |-> slept]

\* rs.ProposalBlockParts.HasHeader(prs.ProposalBlockPartsHeader)
HasHeader(r, header) == header = r.Proposal.BlockPartsHeader

\* The parts PickRandom can return: those of rs the peer is not known to have.
PartsWanted(r, st) ==
    SetBits(SubVal(r.ProposalBlockParts, Deref(st.heap, st.ps.ProposalBlockParts)))

\* The block of a height as the block store holds it: the parts header of its
\* meta, and the commit for it.
Block(header, commit) == [PartsHeader |-> header, Commit |-> commit]

\* blockStore.LoadBlockPart(height, index): whether it returns a part.
PartLoads(height, index) ==
    height \in DOMAIN blockStore /\ index < blockStore[height].PartsHeader.Total

\* prs.ProposalBlockParts.Not().PickRandom(): the indices it can return.
PartsNotHeld(st) ==
    LET bits == Deref(st.heap, st.ps.ProposalBlockParts)
    IN {i \in 0..(Len(bits) - 1) : ~bits[i + 1]}

BlockPartForCatchup(prs, index) ==
    [msgType |-> msgTypeBlockPart, Height |-> prs.Height, Round |-> prs.Round,
     Index |-> index]

\* A variant that marks the part whatever Send returned, which C29 tells from
\* the code's.
MarkedWhateverSent(ok, st, marked) == marked

\* "if peer.Send(DataChannel, msg) { ps.SetHasProposalBlockPart(...) }": the
\* peer state after it, marked being the state with the part marked.
MarkedIfSent(ok, st, marked) == IF ok THEN marked ELSE st

\* A variant that does not compare the parts header of the stored block with
\* the peer's, which C31 tells from the code's.
gossipDataForCatchupAnyHeader(r, prs, st) ==
    IF PartsNotHeld(st) = {} THEN {Iteration(st, <<>>, TRUE)}
    ELSE IF prs.Height \notin DOMAIN blockStore THEN {Iteration(st, <<>>, TRUE)}
    ELSE UNION {
           IF ~PartLoads(prs.Height, index) THEN {Iteration(st, <<>>, TRUE)}
           ELSE {Iteration(MarkedIfSent(ok, st,
                             SetHasProposalBlockPart(st, prs.Height, prs.Round, index)),
                           <<SendCall(DataChannel, BlockPartForCatchup(prs, index), ok)>>,
                           FALSE) : ok \in SendResults} :
           index \in PartsNotHeld(st)}

\* gossipDataForCatchup: the peer is at an earlier height.
gossipDataForCatchup(r, prs, st) ==
    IF PartsNotHeld(st) = {} THEN {Iteration(st, <<>>, TRUE)}
    ELSE IF prs.Height \notin DOMAIN blockStore THEN {Iteration(st, <<>>, TRUE)}
    ELSE IF blockStore[prs.Height].PartsHeader # prs.ProposalBlockPartsHeader
    THEN {Iteration(st, <<>>, TRUE)}
    ELSE UNION {
           IF ~PartLoads(prs.Height, index) THEN {Iteration(st, <<>>, TRUE)}
           ELSE {Iteration(MarkedIfSent(ok, st,
                             SetHasProposalBlockPart(st, prs.Height, prs.Round, index)),
                           <<SendCall(DataChannel, BlockPartForCatchup(prs, index), ok)>>,
                           FALSE) : ok \in SendResults} :
           index \in PartsNotHeld(st)}

\* One iteration of gossipDataRoutine, rs being r and prs the peer state of st.
gossipDataRoutine(r, st) ==
    LET prs == st.ps
    IN IF HasHeader(r, prs.ProposalBlockPartsHeader) /\ PartsWanted(r, st) # {}
       THEN {Iteration(MarkedIfSent(ok, st,
                         SetHasProposalBlockPart(st, prs.Height, prs.Round, index)),
                       <<SendCall(DataChannel, BlockPartMessageOf(r, index), ok)>>,
                       FALSE) :
                index \in PartsWanted(r, st), ok \in SendResults}
       ELSE IF 0 < prs.Height /\ prs.Height < r.Height
       THEN gossipDataForCatchup(r, prs, st)
       ELSE IF r.Height # prs.Height \/ r.Round # prs.Round
       THEN {Iteration(st, <<>>, TRUE)}
       ELSE IF ~prs.Proposal
       THEN {Iteration(IF ok THEN SetHasProposal(st, r.Proposal) ELSE st,
                       <<SendCall(DataChannel, ProposalMessageOf(r), ok)>>
                         \o (IF 0 <= r.Proposal.POLRound
                             THEN <<SendCall(DataChannel, ProposalPOLMessageOf(r), okPOL)>>
                             ELSE <<>>),
                       FALSE) :
                ok \in SendResults, okPOL \in SendResults}
       ELSE {Iteration(st, <<>>, TRUE)}

\* PickSendVote(votes): what it returns, the peer state it leaves and the Send
\* it made.
PickSendVote(st, votes) ==
    IF Len(votes.Bits) = 0
    THEN {[st |-> st, ok |-> FALSE, calls |-> <<>>]}
    ELSE UNION {
           IF PickWanted(st1, votes) = {}
           THEN {[st |-> st1, ok |-> FALSE, calls |-> <<>>]}
           ELSE {[st |-> PickPicked(st1, votes, index), ok |-> ok,
                  calls |-> <<SendCall(VoteChannel, VoteMessageOf(votes, index), ok)>>] :
                    index \in PickWanted(st1, votes), ok \in SendResults} :
           st1 \in {PickPrepared(st, votes)}}

\* A variant that goes on to the next vote set after a Send that returned
\* true, which C32 tells from the code's.
TryVoteSetAfterSent(S, cond, votes) ==
    IF ~cond THEN S
    ELSE UNION {{[st |-> n.st, ok |-> o.ok \/ n.ok, calls |-> o.calls \o n.calls] :
                   n \in PickSendVote(o.st, votes)} :
                o \in S}

\* "if <cond> { if ps.PickSendVote(votes) { return true } }" after the
\* outcomes S of the vote sets tried before.
TryVoteSet(S, cond, votes) ==
    IF ~cond THEN S
    ELSE UNION {IF o.ok THEN {o}
                ELSE {[st |-> n.st, ok |-> n.ok, calls |-> o.calls \o n.calls] :
                        n \in PickSendVote(o.st, votes)} :
                o \in S}

\* A variant that never offers the precommits, which C19 tells from the code's.
gossipVotesForHeightPrevotesOnly(r, prs, st) ==
    TryVoteSet(
      TryVoteSet(
        TryVoteSet({[st |-> st, ok |-> FALSE, calls |-> <<>>]},
                   prs.Step = RoundStepNewHeight, r.LastCommit),
        prs.Step <= RoundStepPrevote /\ prs.Round # -1 /\ prs.Round <= r.Round,
        VoteSetOf(r, prs.Round, VoteTypePrevote)),
      prs.ProposalPOLRound # -1 /\ prs.ProposalPOLRound \in DOMAIN r.Votes,
      VoteSetOf(r, prs.ProposalPOLRound, VoteTypePrevote))

\* gossipVotesForHeight: rs.LastCommit, the prevotes
\* and the precommits of the peer's round, the prevotes of the peer's POL
\* round (rs.Votes.Prevotes gives nil for a round A has not seen).
gossipVotesForHeight(r, prs, st) ==
    TryVoteSet(
      TryVoteSet(
        TryVoteSet(
          TryVoteSet({[st |-> st, ok |-> FALSE, calls |-> <<>>]},
                     prs.Step = RoundStepNewHeight, r.LastCommit),
          prs.Step <= RoundStepPrevote /\ prs.Round # -1 /\ prs.Round <= r.Round,
          VoteSetOf(r, prs.Round, VoteTypePrevote)),
        prs.Step <= RoundStepPrecommit /\ prs.Round # -1 /\ prs.Round <= r.Round,
        VoteSetOf(r, prs.Round, VoteTypePrecommit)),
      prs.ProposalPOLRound # -1 /\ prs.ProposalPOLRound \in DOMAIN r.Votes,
      VoteSetOf(r, prs.ProposalPOLRound, VoteTypePrevote))

\* blockStore.LoadBlockCommit(height), nil for a height that is not stored.
LoadBlockCommit(height) ==
    IF height \in DOMAIN blockStore THEN blockStore[height].Commit ELSE NilVoteSet

\* One iteration of gossipVotesRoutine: the votes of the peer's height, then
\* rs.LastCommit for a peer one height behind, then the stored commit for a
\* peer further behind; it sleeps when it has sent nothing.
gossipVotesRoutine(r, st) ==
    LET prs == st.ps
    IN {Iteration(o.st, o.calls, ~o.ok) :
          o \in TryVoteSet(
                  TryVoteSet(
                    IF r.Height = prs.Height
                    THEN gossipVotesForHeight(r, prs, st)
                    ELSE {[st |-> st, ok |-> FALSE, calls |-> <<>>]},
                    prs.Height # 0 /\ r.Height = prs.Height + 1, r.LastCommit),
                  prs.Height # 0 /\ r.Height >= prs.Height + 2,
                  LoadBlockCommit(prs.Height))}

\* The messages peer.Send accepted, in order.
Accepted(calls) ==
    LET a == SelectSeq(calls, LAMBDA c : c.ok)
    IN [i \in 1..Len(a) |-> a[i].msg]

\* An iteration of a gossip routine takes effect.
Iterated(op, o) ==
    /\ Len(net) + Len(Accepted(o.calls)) <= MaxNet
    /\ Becomes(o.st, snap)
    /\ ret' = Ret(op, TRUE, 0)
    /\ effects' = o.calls
    /\ net' = net \o Accepted(o.calls)
    /\ UNCHANGED <<env, fastSync, peerMsgQueue, wire, rs, peerB, lossy, life, rpc>>

GossipData ==
    /\ env = "gossip"
    /\ \E o \in gossipDataRoutine(rs, Cur) : Iterated("gossipDataRoutine", o)

GossipVotes ==
    /\ env = "gossip"
    /\ \E o \in gossipVotesRoutine(rs, Cur) : Iterated("gossipVotesRoutine", o)

\* What B holds once it has been given msg.
Holding(b, msg) ==
    CASE msg.msgType = msgTypeProposal -> [b EXCEPT !.Proposal = TRUE]
      [] msg.msgType = msgTypeBlockPart -> [b EXCEPT !.Parts = @ \cup {msg.Index}]
      [] msg.msgType = msgTypeVote ->
            [b EXCEPT !.Votes = @ \cup {<<msg.Round, msg.Type, msg.ValidatorIndex>>}]
      [] OTHER -> b

\* The oldest message on its way reaches B.
Deliver ==
    /\ env = "gossip"
    /\ net # <<>>
    /\ peerB' = Holding(peerB, Head(net))
    /\ net' = Tail(net)
    /\ UNCHANGED <<ps, heap, env, snap, ret, reactor, wire, rs, lossy, life, rpc>>

\* B moves on within its round, and its NewRoundStep reaches A.
PeerStepsOn ==
    /\ env = "gossip"
    /\ \E step \in GossipSteps :
         /\ step > ps.Step
         /\ Becomes(ApplyNewRoundStepMessage(Cur,
                      [Height |-> ps.Height, Round |-> ps.Round, Step |-> step,
                       SecondsSinceStartTime |-> 0, LastCommitRound |-> -1],
                      MaxTime), snap)
         /\ ret' = Ret("ApplyNewRoundStepMessage", TRUE, 0)
         /\ UNCHANGED <<env, reactor, wire, gossip, life, rpc>>

InitGossip ==
    /\ rs \in RoundStates
    /\ \E step \in GossipSteps : ps = PeerAt(rs.Height, rs.Round, step)
    /\ heap = <<>>
    /\ env = "gossip"
    /\ snap = NoSnap
    /\ ret = Ret("NewPeerState", TRUE, 0)
    /\ fastSync = FALSE
    /\ peerMsgQueue = <<>>
    /\ effects = <<>>
    /\ NoWire
    /\ peerB = [Proposal |-> FALSE, Parts |-> {}, Votes |-> {}]
    /\ net = <<>>
    /\ lossy \in BOOLEAN
    /\ Started
    /\ conS = "running"
    /\ NoRpc

NextGossip ==
    \/ GossipData
    \/ GossipVotes
    \/ Deliver
    \/ PeerStepsOn

SpecGossip == InitGossip /\ [][NextGossip]_vars

\* The same with no Send refused and the two routines and the connection
\* scheduled fairly: each loops for as long as the peer and the reactor run.
InitGossipLive == InitGossip /\ ~lossy

SpecGossipLive ==
    /\ InitGossipLive
    /\ [][NextGossip]_vars
    /\ WF_vars(GossipData)
    /\ WF_vars(GossipVotes)
    /\ WF_vars(Deliver)

----------------------------------------------------------------------------
(* The reactor as a service and the three routines of one peer: a fifth     *)
(* specification.  The reactor is made, started and stopped; the peer is    *)
(* added and stops; each routine is followed from one IsRunning check, one  *)
(* pass through its loop body and one time.Sleep to the next.  rs is the    *)
(* local RoundState, ps the PeerState AddPeer makes for the peer.           *)

Routines == {"gossipDataRoutine", "gossipVotesRoutine", "queryMaj23Routine"}

\* A place in a routine, and a time.Sleep after which the routine goes on at
\* a place.
At(place) == [at |-> place, then |-> ""]
Asleep(then) == [at |-> "asleep", then |-> then]

\* The four blocks of the loop of queryMaj23Routine, in order, and its last
\* time.Sleep.
QueryBlocks == <<"prevotes", "precommits", "POL", "catchup", "last">>

\* A block a stored height holds: every vote for it is a vote for BlockID 1,
\* and the commit is that of round 0 by every validator.
StoredBlock(height) ==
    Block([Total |-> MaxParts, Hash |-> height],
          [Height |-> height, Round |-> 0, Type |-> VoteTypePrecommit,
           Bits |-> [i \in 1..NumValidators(height) |-> TRUE], IsCommit |-> TRUE,
           BlockID |-> 1])

\* The block store of a node at a height: the blocks of the heights before.
BlockStoreAt(height) == [h \in 1..(height - 1) |-> StoredBlock(h)]

\* The block stores of a node at a height: the store of its own blocks, and
\* one that gives nothing for the height before.
BlockStores(height) ==
    {BlockStoreAt(height), BlockStoreAt(height - 1)}

\* The local node at the second height, in round 0 with its proposal and all
\* its parts and votes of its own; LastCommit is the commit of the first
\* height.
CatchupStates ==
    {[Height |-> 2, Round |-> 0, Step |-> RoundStepPrecommit, StartTime |-> 0,
      LastCommit |-> StoredBlock(1).Commit,
      Proposal |-> [Height |-> 2, Round |-> 0,
                    BlockPartsHeader |-> [Total |-> MaxParts, Hash |-> 2],
                    POLRound |-> -1],
      ProposalBlockParts |-> [i \in 1..MaxParts |-> TRUE],
      Votes |-> [q \in 0..0 |-> [Prevotes |-> pv, Precommits |-> NewBits(NumValidators(2))]]] :
       pv \in {NewBits(NumValidators(2))}}

\* The RoundStates of the local node in this specification: in the prevote
\* step, at the first height with every vote of its round or at the second.
LocalStates ==
    {[r EXCEPT !.Step = RoundStepPrevote] :
       r \in {q \in RoundStates :
                /\ q.Proposal.POLRound = -1
                /\ \A i \in 1..NumValidators(1) :
                     q.Votes[q.Round].Prevotes[i] /\ q.Votes[q.Round].Precommits[i]}
            \cup CatchupStates}

\* The steps the local core announces.
LocalSteps == {RoundStepPrecommit, RoundStepCommit}

\* VoteSet.TwoThirdsMajority(): the BlockID that has +2/3 of the votes and
\* whether there is one (false for a nil vote set).
TwoThirdsMajority(votes) ==
    IF 3 * Cardinality(SetBits(votes.Bits)) > 2 * Len(votes.Bits)
    THEN [BlockID |-> 1, ok |-> TRUE]
    ELSE [BlockID |-> 0, ok |-> FALSE]

\* rs.Votes.Prevotes(round) and rs.Votes.Precommits(round): nil for a round
\* the local node has not seen.
VotesAt(r, round, type_) ==
    IF round \in DOMAIN r.Votes THEN VoteSetOf(r, round, type_) ELSE NilVoteSet

VoteSetMaj23MessageOf(height, round, type_, blockID) ==
    [msgType |-> msgTypeVoteSetMaj23, Height |-> height, Round |-> round,
     Type |-> type_, BlockID |-> blockID]

\* A variant that queries the prevotes of the peer's round whatever the
\* peer's height and nothing else, which C33 tells from the code's.
queryMaj23AnyHeight(block, r, prs) ==
    LET maj23 == TwoThirdsMajority(VotesAt(r, prs.Round, VoteTypePrevote))
    IN IF block = "prevotes" /\ maj23.ok
       THEN <<TrySendCall(StateChannel,
                VoteSetMaj23MessageOf(prs.Height, prs.Round, VoteTypePrevote,
                                      maj23.BlockID))>>
       ELSE <<>>

\* What one block of queryMaj23Routine hands to peer.TrySend, rs being r and
\* prs the peer's round state: one message, or nothing.
queryMaj23(block, r, prs) ==
    CASE block = "prevotes" ->
           LET maj23 == TwoThirdsMajority(VotesAt(r, prs.Round, VoteTypePrevote))
           IN IF r.Height = prs.Height /\ maj23.ok
              THEN <<TrySendCall(StateChannel,
                       VoteSetMaj23MessageOf(prs.Height, prs.Round, VoteTypePrevote,
                                             maj23.BlockID))>>
              ELSE <<>>
      [] block = "precommits" ->
           LET maj23 == TwoThirdsMajority(VotesAt(r, prs.Round, VoteTypePrecommit))
           IN IF r.Height = prs.Height /\ maj23.ok
              THEN <<TrySendCall(StateChannel,
                       VoteSetMaj23MessageOf(prs.Height, prs.Round, VoteTypePrecommit,
                                             maj23.BlockID))>>
              ELSE <<>>
      [] block = "POL" ->
           LET maj23 == TwoThirdsMajority(VotesAt(r, prs.ProposalPOLRound, VoteTypePrevote))
           IN IF r.Height = prs.Height /\ prs.ProposalPOLRound >= 0 /\ maj23.ok
              THEN <<TrySendCall(StateChannel,
                       VoteSetMaj23MessageOf(prs.Height, prs.ProposalPOLRound,
                                             VoteTypePrevote, maj23.BlockID))>>
              ELSE <<>>
      [] block = "catchup" ->
           IF /\ prs.CatchupCommitRound # -1
              /\ 0 < prs.Height
              /\ prs.Height <= Len(blockStore)
           THEN LET commit == blockStore[prs.Height].Commit
                IN <<TrySendCall(StateChannel,
                       VoteSetMaj23MessageOf(prs.Height, commit.Round, VoteTypePrecommit,
                                             commit.BlockID))>>
           ELSE <<>>
      [] OTHER -> <<>>

\* A variant that makes the CommitStepMessage in every step, which C27 tells
\* from the code's.
HasCommitStepAlways(step) == TRUE

\* "if rs.Step == RoundStepCommit { csMsg = &CommitStepMessage{...} }"
HasCommitStep(step) == step = RoundStepCommit

\* makeRoundStepMessages at time t: the NewRoundStepMessage, and after it the
\* CommitStepMessage if there is one.
makeRoundStepMessages(r, t) ==
    <<[msgType |-> msgTypeNewRoundStep, Height |-> r.Height, Round |-> r.Round,
       Step |-> r.Step, SecondsSinceStartTime |-> t - r.StartTime,
       LastCommitRound |-> r.LastCommit.Round]>>
      \o (IF HasCommitStep(r.Step)
          THEN <<[msgType |-> msgTypeCommitStep, Height |-> r.Height,
                  BlockPartsHeader |-> r.Proposal.BlockPartsHeader,
                  BlockParts |-> r.ProposalBlockParts]>>
          ELSE <<>>)

BroadcastCall(chID, msg) == [call |-> "Broadcast", chID |-> chID, msg |-> msg]

\* broadcastNewRoundStep: the calls of conR.Switch.Broadcast, in order.
broadcastNewRoundStep(r, t) ==
    LET msgs == makeRoundStepMessages(r, t)
    IN [i \in 1..Len(msgs) |-> BroadcastCall(StateChannel, msgs[i])]

\* sendNewRoundStepMessages: the calls of peer.Send, in order.
sendNewRoundStepMessages(r, t) ==
    LET msgs == makeRoundStepMessages(r, t)
    IN {[i \in 1..Len(msgs) |-> SendCall(StateChannel, msgs[i], oks[i])] :
          oks \in [1..Len(msgs) -> SendResults]}

\* "if !conR.IsRunning() { return }"
AddPeerReturnsEarly(run) == ~run

\* A variant in which a routine never looks at the peer, which C21 tells
\* from the code's.
RoutineGoesOnReactorOnly(peerRuns, reactorRuns) == reactorRuns

\* "if !peer.IsRunning() || !conR.IsRunning() { return }" read the other way.
RoutineGoesOn(peerRuns, reactorRuns) == peerRuns /\ reactorRuns

\* A variant of OnStart that starts the consensus core whatever the flag,
\* which C22 tells from the code's.
StartsCoreAlways(fast) == TRUE

\* "if !conR.FastSync() { _, err := conR.conS.Start() ... }"
StartsCore(fast) == ~fast

\* OnStart: the service starts, the callbacks are registered, and the
\* consensus core is started unless the reactor is fast-syncing.
OnStart ==
    /\ env = "routines"
    /\ ~registered
    /\ isRunning' = TRUE
    /\ registered' = TRUE
    /\ conS' = IF StartsCore(fastSync) /\ conS = "new" THEN "running" ELSE conS
    /\ ret' = Ret("OnStart", TRUE, 0)
    /\ effects' = <<>>
    /\ UNCHANGED <<ps, heap, env, snap, fastSync, peerMsgQueue, wire, gossip,
                   peerRunning, peerData, loc, woke, blockStore, mtx, rpc>>

\* OnStop
OnStop ==
    /\ env = "routines"
    /\ isRunning
    /\ isRunning' = FALSE
    /\ conS' = "stopped"
    /\ ret' = Ret("OnStop", TRUE, 0)
    /\ effects' = <<>>
    /\ UNCHANGED <<ps, heap, env, snap, fastSync, peerMsgQueue, wire, gossip,
                   registered, peerRunning, peerData, loc, woke, blockStore, mtx, rpc>>

\* AddPeer, for the peer that has not been added yet.
AddPeer ==
    /\ env = "routines"
    /\ ~peerData
    /\ IF AddPeerReturnsEarly(isRunning)
       THEN /\ ret' = Ret("AddPeer", FALSE, 0)
            /\ effects' = <<>>
            /\ UNCHANGED <<peerData, loc>>
       ELSE /\ ret' = Ret("AddPeer", TRUE, 0)
            /\ peerData' = TRUE
            /\ loc' = [r \in Routines |-> At("top")]
            /\ IF fastSync THEN effects' = <<>>
               ELSE effects' \in sendNewRoundStepMessages(rs, 0)
    /\ UNCHANGED <<ps, heap, env, snap, fastSync, peerMsgQueue, wire, gossip,
                   isRunning, conS, registered, peerRunning, woke, blockStore, mtx, rpc>>

\* The peer stops: its connection has failed or the switch has stopped it.
StopPeer ==
    /\ env = "routines"
    /\ peerRunning
    /\ peerRunning' = FALSE
    /\ ret' = Ret("StopPeer", TRUE, 0)
    /\ effects' = <<>>
    /\ UNCHANGED <<ps, heap, env, snap, fastSync, peerMsgQueue, wire, gossip,
                   isRunning, conS, registered, peerData, loc, woke, blockStore, mtx, rpc>>

\* The consensus core fires EventNewRoundStep having moved to another step,
\* and the listener of the reactor runs.
NewRoundStep ==
    /\ env = "routines"
    /\ conS = "running"
    /\ \E step \in LocalSteps :
         /\ step > rs.Step
         /\ rs' = [rs EXCEPT !.Step = step]
    /\ effects' = IF registered THEN broadcastNewRoundStep(rs', 0) ELSE <<>>
    /\ ret' = Ret("NewRoundStep", TRUE, 0)
    /\ UNCHANGED <<ps, heap, env, snap, fastSync, peerMsgQueue, wire,
                   peerB, net, lossy, life, rpc>>

\* The messages of the peer that Receive applies to its PeerState here: it
\* announces that it is in the commit step of the first height, with the
\* parts header of the block of that height and a bit-array of its size or
\* of one bit more, or with the parts header of another block.
AnnouncedRoundSteps ==
    [Height : {1}, Round : {MaxRound}, Step : {RoundStepCommit},
     SecondsSinceStartTime : {0}, LastCommitRound : {-1}]

AnnouncedCommitSteps ==
    {[Height |-> 1, BlockPartsHeader |-> [Total |-> MaxParts, Hash |-> 1],
      BlockParts |-> NewBits(MaxParts)],
     [Height |-> 1, BlockPartsHeader |-> [Total |-> MaxParts, Hash |-> 1],
      BlockParts |-> NewBits(MaxParts + 1)],
     [Height |-> 1, BlockPartsHeader |-> [Total |-> MaxParts, Hash |-> 3],
      BlockParts |-> NewBits(MaxParts)]}

\* Receive for a NewRoundStepMessage or a CommitStepMessage of the peer.
PeerAnnounces ==
    /\ env = "routines"
    /\ isRunning /\ peerData /\ peerRunning
    /\ \/ \E msg \in AnnouncedRoundSteps :
            /\ ~NRSIgnored(ps, msg)
            /\ Becomes(ApplyNewRoundStepMessage(Cur, msg, MaxTime), snap)
       \/ \E msg \in AnnouncedCommitSteps :
            /\ ps.Height = msg.Height
            /\ Becomes(ApplyCommitStepMessage(Cur, msg), snap)
    /\ ret' = Ret("Receive", TRUE, 0)
    /\ effects' = <<>>
    /\ UNCHANGED <<env, fastSync, peerMsgQueue, wire, gossip, life, rpc>>

\* A step of one of the three goroutines AddPeer starts.
Go == Ret("go", TRUE, 0)

\* One pass of a gossip routine through its loop: it returns if the peer or
\* the reactor has stopped, and else does what o says.
Passes(r, outcomes) ==
    /\ loc[r] = At("top")
    /\ woke' = woke \ {r}
    /\ ret' = Go
    /\ IF RoutineGoesOn(peerRunning, isRunning)
       THEN \E o \in outcomes :
              /\ Becomes(o.st, snap)
              /\ effects' = o.calls
              /\ loc' = [loc EXCEPT ![r] = IF o.slept THEN Asleep("top") ELSE At("top")]
       ELSE /\ effects' = <<>>
            /\ loc' = [loc EXCEPT ![r] = At("done")]
            /\ UNCHANGED <<ps, heap, snap>>
    /\ UNCHANGED <<env, fastSync, peerMsgQueue, wire, gossip,
                   isRunning, conS, registered, peerRunning, peerData,
                   blockStore, mtx, rpc>>

GossipsData ==
    /\ env = "routines"
    /\ Passes("gossipDataRoutine", gossipDataRoutine(rs, Cur))

GossipsVotes ==
    /\ env \in {"routines", "gossipVotes"}
    /\ Passes("gossipVotesRoutine", gossipVotesRoutine(rs, Cur))

\* The blocks of queryMaj23Routine from the i-th on that call peer.TrySend.
SendingFrom(i) ==
    {j \in i..Len(QueryBlocks) : queryMaj23(QueryBlocks[j], rs, ps) # <<>>}

\* The least member of a set of numbers that is not empty.
Least(S) == CHOOSE j \in S : \A k \in S : j <= k

\* queryMaj23Routine goes on from the i-th block to its next time.Sleep: the
\* one after the first TrySend, or the last of the loop.
QueriesFrom(i) ==
    LET r == "queryMaj23Routine"
    IN IF SendingFrom(i) = {}
       THEN /\ effects' = <<>>
            /\ loc' = [loc EXCEPT ![r] = Asleep("top")]
       ELSE LET j == Least(SendingFrom(i))
            IN /\ effects' = queryMaj23(QueryBlocks[j], rs, ps)
               /\ loc' = [loc EXCEPT ![r] = Asleep(QueryBlocks[j + 1])]

\* Whether queryMaj23Routine calls peer.IsRunning() and conR.IsRunning() when
\* it goes on from a place: the two calls are at the top of the loop only.
QueryChecks(place) == place = "top"

\* queryMaj23Routine, from the top of its loop or from the block it was to go
\* on at after a time.Sleep, to its next time.Sleep or its return.
QueriesMaj23 ==
    /\ env \in {"routines", "queryMaj23"}
    /\ LET r == "queryMaj23Routine"
       IN /\ loc[r].at \in {"top"} \cup {QueryBlocks[i] : i \in 1..Len(QueryBlocks)}
          /\ ret' = Go
          /\ woke' = IF QueryChecks(loc[r].at) THEN woke \ {r} ELSE woke
          /\ IF QueryChecks(loc[r].at) => RoutineGoesOn(peerRunning, isRunning)
             THEN \E i \in 1..Len(QueryBlocks) :
                    /\ QueryBlocks[i] = (IF loc[r].at = "top" THEN QueryBlocks[1]
                                         ELSE loc[r].at)
                    /\ QueriesFrom(i)
             ELSE /\ effects' = <<>>
                  /\ loc' = [loc EXCEPT ![r] = At("done")]
    /\ UNCHANGED <<ps, heap, env, snap, fastSync, peerMsgQueue, wire, gossip,
                   isRunning, conS, registered, peerRunning, peerData,
                   blockStore, mtx, rpc>>

\* The time.Sleep of a routine returns.
Wake(r) ==
    /\ env \in {"routines", "gossipVotes", "queryMaj23"}
    /\ loc[r].at = "asleep"
    /\ loc' = [loc EXCEPT ![r] = At(loc[r].then)]
    /\ woke' = woke \cup {r}
    /\ ret' = Go
    /\ effects' = <<>>
    /\ UNCHANGED <<ps, heap, env, snap, fastSync, peerMsgQueue, wire, gossip,
                   isRunning, conS, registered, peerRunning, peerData, blockStore, mtx, rpc>>

Wakes == \E r \in Routines : Wake(r)

\* NewConsensusReactor(consensusState, fastSync), and a peer that runs.
InitRoutines ==
    /\ ps = NewPeerState
    /\ heap = <<>>
    /\ env = "routines"
    /\ snap = NoSnap
    /\ ret = Ret("NewConsensusReactor", TRUE, 0)
    /\ fastSync \in BOOLEAN
    /\ peerMsgQueue = <<>>
    /\ effects = <<>>
    /\ NoWire
    /\ rs \in LocalStates
    /\ peerB = <<>>
    /\ net = <<>>
    /\ lossy \in BOOLEAN
    /\ isRunning = FALSE
    /\ conS = "new"
    /\ registered = FALSE
    /\ peerRunning = TRUE
    /\ peerData = FALSE
    /\ loc = [r \in Routines |-> At("none")]
    /\ woke = {}
    /\ blockStore \in BlockStores(rs.Height)
    /\ mtx = {}
    /\ NoRpc

NextRoutines ==
    \/ OnStart
    \/ OnStop
    \/ AddPeer
    \/ StopPeer
    \/ SwitchToConsensus
    \/ NewRoundStep
    \/ PeerAnnounces
    \/ GossipsData
    \/ GossipsVotes
    \/ QueriesMaj23
    \/ Wakes

SpecRoutines == InitRoutines /\ [][NextRoutines]_vars

\* The same for a node at the first height and a peer that refuses no Send,
\* with the three goroutines scheduled fairly and every time.Sleep returning.
InitRoutinesLive == InitRoutines /\ ~lossy /\ rs.Height = 1

SpecRoutinesLive ==
    /\ InitRoutinesLive
    /\ [][NextRoutines]_vars
    /\ WF_vars(GossipsData)
    /\ WF_vars(GossipsVotes)
    /\ WF_vars(QueriesMaj23)
    /\ \A r \in Routines : WF_vars(Wake(r))

----------------------------------------------------------------------------
(* Transaction events and BroadcastTxCommit: a sixth specification.  The    *)
(* block executor buffers one EventDataTx for each transaction of a block   *)
(* in a TxEventBuffer and flushes the buffer to the publisher behind it; an *)
(* RPC client calls BroadcastTxCommit, which subscribes to the event of its *)
(* transaction, hands the transaction to the mempool and waits.             *)

MaxEvents == 2      \* most events the executor buffers before it flushes
MaxPublished == 3   \* most events published on the underlying publisher
MaxClock == 180     \* the clock stops here
TickSeconds == 60   \* the clock advances by this much

\* abci.CodeType_OK and one other code.
CodeType_OK == 0
Codes == {CodeType_OK, 1}

\* The timer of BroadcastTxCommit, in seconds.
timerSeconds == 120

Txs == {1, 2}

\* tx.Hash()
Hash(tx) == tx + 16

\* The publishers a TxEventBuffer can stand before: the EventBus, whose
\* PublishEventTx returns nil always, and another TxEventPublisher, whose
\* PublishEventTx can return an error.
Publishers == {"EventBus", "TxEventPublisher"}

\* The Data of a result is never empty here (0 stands for no data).
EventDataTxs == [Height : {1}, Tx : Txs, Data : {1}, Code : Codes]

NilError == "nil"

\* abci.Result{}
ZeroResult == [Code |-> CodeType_OK, Data |-> 0]

\* TxEventBuffer.PublishEventTx
BufferPublishEventTx(b, e) == [events |-> Append(b, e), err |-> NilError]

\* A variant that leaves the events in the buffer after it has published them
\* all, which C23 tells from the code's.
FlushKeepingEvents(b, k) ==
    IF k = 0 THEN [events |-> b, sent |-> b, err |-> NilError]
    ELSE [events |-> b, sent |-> SubSeq(b, 1, k - 1), err |-> "publish"]

\* A variant that drops the buffer when a publish fails, which C24 tells from
\* the code's.
FlushDroppingOnError(b, k) ==
    IF k = 0 THEN [events |-> <<>>, sent |-> b, err |-> NilError]
    ELSE [events |-> <<>>, sent |-> SubSeq(b, 1, k - 1), err |-> "publish"]

\* TxEventBuffer.Flush, the publisher returning an error for the k-th event of
\* the buffer (for none if k = 0): the buffer it leaves, the events it
\* published, in order, and what it returns.
Flush(b, k) ==
    IF k = 0 THEN [events |-> <<>>, sent |-> b, err |-> NilError]
    ELSE [events |-> b, sent |-> SubSeq(b, 1, k - 1), err |-> "publish"]

\* The events for which the publisher can return an error.
FailingAt(b) == IF next = "EventBus" THEN {0} ELSE 0..Len(b)

\* The events of a sequence that match EventQueryTx(tx).
Matching(evs, tx) == SelectSeq(evs, LAMBDA e : Hash(e.Tx) = Hash(tx))

\* Whether a call of BroadcastTxCommit holds a subscription.
Subscribed == call.at \in {"checkTx", "select"}

\* The executor hands the event of a delivered transaction to the buffer.
PublishEventTx ==
    /\ env = "tx"
    /\ Len(events) < MaxEvents
    /\ \E e \in EventDataTxs :
         LET r == BufferPublishEventTx(events, e)
         IN /\ events' = r.events
            /\ ret' = Ret("PublishEventTx", r.err = NilError, 0)
    /\ UNCHANGED <<ps, heap, env, snap, reactor, wire, gossip, life,
                   next, published, call, clock>>

\* The executor flushes the buffer; what the publisher publishes reaches the
\* subscriber of its transaction.
FlushBuffer ==
    /\ env = "tx"
    /\ \E k \in FailingAt(events) :
         LET r == Flush(events, k)
         IN /\ Len(published) + Len(r.sent) <= MaxPublished
            /\ events' = r.events
            /\ published' = published \o r.sent
            /\ ret' = Ret("Flush", r.err = NilError, Len(r.sent))
            /\ call' = IF Subscribed
                       THEN [call EXCEPT !.inbox = @ \o Matching(r.sent, call.tx)]
                       ELSE call
    /\ UNCHANGED <<ps, heap, env, snap, reactor, wire, gossip, life, next, clock>>

\* What BroadcastTxCommit returns.
Returned(tx, result, err) ==
    [at |-> "returned", tx |-> tx, result |-> result, err |-> err]

NoResult == <<>>

ResultBroadcastTxCommit(checkTx, deliverTx, hash, height) ==
    [CheckTx |-> checkTx, DeliverTx |-> deliverTx, Hash |-> hash, Height |-> height]

\* BroadcastTxCommit up to "<-checkTxResCh": eventBus.Subscribe and
\* mempool.CheckTx, each of which can return an error.
BroadcastTxCommitCalled(tx, subscribeErr, checkTxErr) ==
    IF subscribeErr THEN Returned(tx, NoResult, "subscribe")
    ELSE IF checkTxErr THEN Returned(tx, NoResult, "checkTx")
    ELSE [at |-> "checkTx", tx |-> tx, inbox |-> <<>>]

\* A variant that waits for the block whatever CheckTx answered, which C25
\* tells from the code's.
CheckTxAnsweredAlwaysWaiting(c, checkTxR, t) ==
    [at |-> "select", tx |-> c.tx, inbox |-> c.inbox, checkTxR |-> checkTxR,
     timer |-> t + timerSeconds]

\* From "<-checkTxResCh" to the select: the answer of the application, at
\* time t.
CheckTxAnswered(c, checkTxR, t) ==
    IF checkTxR.Code # CodeType_OK
    THEN Returned(c.tx, ResultBroadcastTxCommit(checkTxR, ZeroResult, Hash(c.tx), 0),
                  NilError)
    ELSE [at |-> "select", tx |-> c.tx, inbox |-> c.inbox, checkTxR |-> checkTxR,
          timer |-> t + timerSeconds]

\* case deliverTxResMsg := <-deliverTxResCh
EventSelected(c) ==
    LET deliverTxRes == Head(c.inbox)
    IN Returned(c.tx,
         ResultBroadcastTxCommit(c.checkTxR,
           [Code |-> deliverTxRes.Code, Data |-> deliverTxRes.Data],
           Hash(c.tx), deliverTxRes.Height),
         NilError)

\* case <-timer.C
TimerSelected(c) ==
    Returned(c.tx, ResultBroadcastTxCommit(c.checkTxR, ZeroResult, Hash(c.tx), 0),
             "timeout")

\* An RPC client calls BroadcastTxCommit (one call is followed).
BroadcastTxCommit ==
    /\ env = "tx"
    /\ call.at = "none"
    /\ \E tx \in Txs, subscribeErr \in BOOLEAN, checkTxErr \in BOOLEAN :
         call' = BroadcastTxCommitCalled(tx, subscribeErr, checkTxErr)
    /\ ret' = Ret("BroadcastTxCommit", TRUE, 0)
    /\ UNCHANGED <<ps, heap, env, snap, reactor, wire, gossip, life,
                   next, events, published, clock>>

\* The application answers CheckTx, and the callback sends to checkTxResCh.
CheckTxResponds ==
    /\ env = "tx"
    /\ call.at = "checkTx"
    /\ \E code \in Codes :
         call' = CheckTxAnswered(call, [Code |-> code, Data |-> 1], clock)
    /\ ret' = Ret("CheckTx", TRUE, 0)
    /\ UNCHANGED <<ps, heap, env, snap, reactor, wire, gossip, life,
                   next, events, published, clock>>

\* The select takes the event of the transaction.
TxIncluded ==
    /\ env = "tx"
    /\ call.at = "select"
    /\ call.inbox # <<>>
    /\ call' = EventSelected(call)
    /\ ret' = Ret("BroadcastTxCommit", TRUE, 0)
    /\ UNCHANGED <<ps, heap, env, snap, reactor, wire, gossip, life,
                   next, events, published, clock>>

\* The select takes the timer, which has fired.
TimedOut ==
    /\ env = "tx"
    /\ call.at = "select"
    /\ clock >= call.timer
    /\ call' = TimerSelected(call)
    /\ ret' = Ret("BroadcastTxCommit", FALSE, 0)
    /\ UNCHANGED <<ps, heap, env, snap, reactor, wire, gossip, life,
                   next, events, published, clock>>

\* Time passes.  Only the timer reads the clock, so time is followed while a
\* call is in its select.
Tick ==
    /\ env = "tx"
    /\ call.at = "select"
    /\ clock < MaxClock
    /\ clock' = clock + TickSeconds
    /\ UNCHANGED <<ps, heap, env, snap, ret, reactor, wire, gossip, life,
                   next, events, published, call>>

InitTx ==
    /\ ps = NewPeerState
    /\ heap = <<>>
    /\ env = "tx"
    /\ snap = NoSnap
    /\ ret = Ret("NewTxEventBuffer", TRUE, 0)
    /\ fastSync = FALSE
    /\ peerMsgQueue = <<>>
    /\ effects = <<>>
    /\ NoWire
    /\ NoGossip
    /\ Started
    /\ conS = "running"
    /\ next \in Publishers
    /\ events = <<>>
    /\ published = <<>>
    /\ call = NoCall
    /\ clock = 0

NextTx ==
    \/ PublishEventTx
    \/ FlushBuffer
    \/ BroadcastTxCommit
    \/ CheckTxResponds
    \/ TxIncluded
    \/ TimedOut
    \/ Tick

SpecTx == InitTx /\ [][NextTx]_vars

----------------------------------------------------------------------------
(* Views used by the properties *)

\* (h1, r1, s1) <= (h2, r2, s2) in lexicographic order.
LexLeq(h1, r1, s1, h2, r2, s2) ==
    \/ h1 < h2
    \/ h1 = h2 /\ r1 < r2
    \/ h1 = h2 /\ r1 = r2 /\ s1 <= s2

\* The peer state as an observer of its values sees it: every bit-array field
\* replaced by the bits behind it.
PeerView(p, h) ==
    [p EXCEPT !.ProposalBlockParts = Deref(h, @),
              !.ProposalPOL = Deref(h, @),
              !.Prevotes = Deref(h, @),
              !.Precommits = Deref(h, @),
              !.LastCommit = Deref(h, @),
              !.CatchupCommit = Deref(h, @)]

----------------------------------------------------------------------------
(* C1 *)

\* C1: over every step of every operation on the PeerState, the triple
\* (Height, Round, Step) never decreases in lexicographic order.
C1_HRSNeverDecreases ==
    [][LexLeq(ps.Height, ps.Round, ps.Step, ps'.Height, ps'.Round, ps'.Step)]_vars

\* A peer that advanced by a NewRoundStep to the last height, round and step, and
\* carries a proposal received since.
C1_Witness ==
    /\ ps.Height = MaxHeight
    /\ ps.Round = MaxRound
    /\ ps.Step = RoundStepCommit
    /\ ps.Proposal
    /\ ret.op = "other"

----------------------------------------------------------------------------
(* C2 *)

\* C2: when ApplyNewRoundStepMessage moves the peer from height H to H+1, the
\* old Precommits bit-array becomes LastCommit if the old round equals
\* msg.LastCommitRound (LastCommitRound is msg.LastCommitRound and Precommits is
\* nil afterwards), and otherwise LastCommit is nil.
C2_PrecommitsBecomeLastCommit ==
    [][ret'.op = "ApplyNewRoundStepMessage" =>
       \A msg \in NewRoundStepMessages :
         (ps.Height + 1 = msg.Height /\ NewRoundStepReceived(msg)) =>
            /\ ps'.LastCommitRound = msg.LastCommitRound
            /\ ps'.Precommits = Nil
            /\ IF ps.Round = msg.LastCommitRound
               THEN Deref(heap', ps'.LastCommit) = Deref(heap, ps.Precommits)
               ELSE ps'.LastCommit = Nil]_vars

----------------------------------------------------------------------------
(* C3 *)

\* C3: a NewRoundStepMessage whose (Height, Round, Step) is less than or equal to
\* the peer's triple is dropped as a whole: no field of the PeerRoundState and no
\* bit-array changes.
C3_StaleRoundStepDropped ==
    [][ret'.op = "ApplyNewRoundStepMessage" =>
       \A msg \in NewRoundStepMessages :
         (/\ LexLeq(msg.Height, msg.Round, msg.Step, ps.Height, ps.Round, ps.Step)
          /\ NewRoundStepReceived(msg)) =>
            (ps' = ps /\ heap' = heap)]_vars

\* A NewRoundStep was just dropped by a peer that has a proposal with parts and a
\* start time that a re-application would have moved.
C3_Witness ==
    /\ ret.op = "ApplyNewRoundStepMessage"
    /\ ~ret.ok
    /\ ps.Proposal
    /\ ps.ProposalBlockParts # Nil
    /\ ps.StartTime = 0

----------------------------------------------------------------------------
(* C4 *)

\* C4: PickVoteToSend(votes) returns (v, true) only for an index set in
\* votes.BitArray() and not set in the peer's routed bit-array when the call
\* started, and that bit is set in the peer state on return; it returns
\* (nil, false), setting no bit, exactly when there is no such index (empty vote
\* set, routed bit-array nil, or no local bit the peer lacks).
C4_PickVoteToSendContract ==
    [][ret'.op = "PickVoteToSend" =>
       \A votes \in VoteSets :
         VoteSetPicked(votes) =>
            LET st1 == IF Len(votes.Bits) = 0 THEN Cur ELSE PickPrepared(Cur, votes)
                routed == getVoteBitArray(st1.ps, votes.Height, votes.Round, votes.Type)
                candidates ==
                    IF Len(votes.Bits) = 0 \/ routed = Nil THEN {}
                    ELSE {i \in SetBits(votes.Bits) : ~GetIndexVal(st1.heap[routed], i)}
                after ==
                    Deref(heap', getVoteBitArray(ps', votes.Height, votes.Round, votes.Type))
            IN IF ret'.ok
               THEN ret'.idx \in candidates /\ GetIndexVal(after, ret'.idx)
               ELSE candidates = {} /\ Becomes(st1, snap)]_vars

----------------------------------------------------------------------------
(* C5 *)

\* The vote-routing matrix, row by row: the field it designates, "" for none.
MatrixTarget(p, height, round, type_) ==
    IF p.Height = height /\ p.Round = round /\ type_ = VoteTypePrevote
    THEN "Prevotes"
    ELSE IF p.Height = height /\ p.Round = round /\ type_ = VoteTypePrecommit
    THEN "Precommits"
    ELSE IF p.Height = height /\ p.CatchupCommitRound = round /\ type_ = VoteTypePrecommit
    THEN "CatchupCommit"
    ELSE IF p.Height = height /\ p.ProposalPOLRound = round /\ type_ = VoteTypePrevote
    THEN "ProposalPOL"
    ELSE IF p.Height = height + 1 /\ p.LastCommitRound = round /\ type_ = VoteTypePrecommit
    THEN "LastCommit"
    ELSE ""

\* The bit of the vote set in the array the matrix designates; nothing when no
\* row applies or the array is nil.
SetHasVoteByMatrix(st, vote) ==
    LET f == MatrixTarget(st.ps, vote.Height, vote.Round, vote.Type)
    IN IF f = "" THEN st ELSE SetIndexAt(st, st.ps[f], vote.ValidatorIndex)

\* C5: SetHasVote sets the bit of the vote in exactly the bit-array the
\* vote-routing matrix designates for the peer's state, whichever of the peer's
\* rounds coincide, and changes nothing when no row applies or the array is nil.
C5_SetHasVoteFollowsMatrix ==
    [][ret'.op = "SetHasVote" =>
       \A vote \in Votes, height \in Heights :
         VoteReceived(vote, height) =>
            Becomes(SetHasVoteByMatrix(ReceiveVoteEnsured(Cur, height), vote), snap)]_vars

----------------------------------------------------------------------------
(* C6 *)

\* C6: for a peer at (H, R) with a Precommits bit-array and CatchupCommitRound
\* other than R, PickVoteToSend with a commit for (H, R) sets CatchupCommitRound
\* to R and makes CatchupCommit the same instance as Precommits, so the bit this
\* pick marks shows through CatchupCommit.
C6_CatchupCommitAliasesPrecommits ==
    [][(/\ ret'.op = "PickVoteToSend"
        /\ ps.Precommits # Nil
        /\ ps.CatchupCommitRound # ps.Round) =>
       \A votes \in VoteSets :
         (/\ votes.IsCommit
          /\ votes.Height = ps.Height
          /\ votes.Round = ps.Round
          /\ VoteSetPicked(votes)) =>
            /\ ps'.CatchupCommitRound = votes.Round
            /\ ps'.Precommits # Nil
            /\ ps'.CatchupCommit = ps'.Precommits
            /\ ret'.ok => GetIndexVal(heap'[ps'.CatchupCommit], ret'.idx)]_vars

\* A pick just marked a bit, and the peer's round is its CatchupCommitRound with
\* one instance behind both fields, holding the bit.
C6_Witness ==
    /\ ret.op = "PickVoteToSend"
    /\ ret.ok
    /\ ps.CatchupCommitRound = ps.Round
    /\ ps.Precommits # Nil
    /\ ps.CatchupCommit = ps.Precommits
    /\ GetIndexVal(heap[ps.Precommits], ret.idx)

----------------------------------------------------------------------------
(* C7 *)

\* C7: a reader holding the result of GetRoundState cannot change the peer
\* state through it: a SetIndex on any bit-array of the result leaves every
\* field of the peer state, bit-arrays included, as it was.
C7_SnapshotIsolatesPeerState ==
    [][ReaderSetsIndex => PeerView(ps', heap') = PeerView(ps, heap)]_vars

----------------------------------------------------------------------------
(* C8 *)

\* C8: whenever Proposal is true, the ProposalBlockParts bit-array has
\* ProposalBlockPartsHeader.Total bits.
C8_BlockPartsMatchHeader ==
    ps.Proposal =>
        Len(Deref(heap, ps.ProposalBlockParts)) = ps.ProposalBlockPartsHeader.Total

----------------------------------------------------------------------------
(* C9 *)

\* C9: Round >= -1 and -1 <= ProposalPOLRound <= Round in every reachable state.
C9_RoundsInRange ==
    /\ ps.Round >= -1
    /\ ps.ProposalPOLRound >= -1
    /\ ps.ProposalPOLRound <= ps.Round

----------------------------------------------------------------------------
(* C10 *)

\* The array behind pointer p is nil or has n bits.
HasSize(p, n) == p = Nil \/ Len(heap[p]) = n

\* C10: every non-nil vote bit-array has the size of the validator set of its
\* height: Prevotes, Precommits, ProposalPOL and CatchupCommit that of the
\* peer's height, LastCommit that of the height before.
C10_VoteBitArraySizes ==
    /\ HasSize(ps.Prevotes, NumValidators(ps.Height))
    /\ HasSize(ps.Precommits, NumValidators(ps.Height))
    /\ HasSize(ps.ProposalPOL, NumValidators(ps.Height))
    /\ HasSize(ps.CatchupCommit, NumValidators(ps.Height))
    /\ HasSize(ps.LastCommit, LastCommitSize(ps.Height))

----------------------------------------------------------------------------
(* C16 *)

\* C16 as stated: when a VoteSetBits message is applied, the bit-array recorded
\* for the peer at the message's (H, R, type) afterwards equals the bits the
\* message carries, whatever was recorded before.
C16_RecordedBitsEqualSentBits ==
    \A msg \in VoteSetBitsMessages : \A ourVotes \in OurVotes(msg) :
        LET votes == getVoteBitArray(ps, msg.Height, msg.Round, msg.Type)
            after == ApplyVoteSetBitsMessage(Cur, msg, ourVotes).heap
        IN votes # Nil =>
             \A i \in 0..(Len(heap[votes]) - 1) :
                GetIndexVal(after[votes], i) <=> GetIndexVal(msg.Votes, i)

\* C16, amended: every bit the message carries is recorded afterwards, and a bit
\* it does not carry is recorded afterwards exactly when it was recorded before,
\* the local node has a bit-array for the message's BlockID, and that bit-array
\* lacks the bit (a vote of the peer for another block).  With no local
\* bit-array the recorded bits are the message's.
C16_RecordedBitsMergeSentBits ==
    \A msg \in VoteSetBitsMessages : \A ourVotes \in OurVotes(msg) :
        LET votes == getVoteBitArray(ps, msg.Height, msg.Round, msg.Type)
            after == ApplyVoteSetBitsMessage(Cur, msg, ourVotes).heap
        IN votes # Nil =>
             \A i \in 0..(Len(heap[votes]) - 1) :
                GetIndexVal(after[votes], i) <=>
                    \/ GetIndexVal(msg.Votes, i)
                    \/ /\ ourVotes # <<>>
                       /\ GetIndexVal(heap[votes], i)
                       /\ ~GetIndexVal(ourVotes, i)

\* A VoteSetBits message was just applied to a peer whose Prevotes keep a bit
\* while its Precommits, of the same size, have none: a kept bit and a cleared
\* or never-set one.
C16_Witness ==
    /\ ret.op = "ApplyVoteSetBitsMessage"
    /\ ps.Prevotes # Nil
    /\ ps.Precommits # Nil
    /\ SetBits(heap[ps.Prevotes]) # {}
    /\ SetBits(heap[ps.Precommits]) = {}

----------------------------------------------------------------------------
(* C11 *)

\* C11: DecodeMessage is total: whatever frame Receive hands it (the empty
\* byte sequence, an unknown type byte, a frame over 1 MiB, a decodable one),
\* it returns a message or an error, so no call of Receive ends in a panic
\* raised in DecodeMessage.
C11_DecodeMessageNeverPanics ==
    \A i \in 1..Len(effects) :
        effects[i].call = "panic" => effects[i].where # "DecodeMessage"

----------------------------------------------------------------------------
(* C12 *)

\* C12: no message a peer sends is fatal: whatever decodable message arrives,
\* on whatever channel and with whatever field values (a vote type that is
\* neither prevote nor precommit included), Receive returns normally; the only
\* panic a call of Receive can end in is the decoder's.
C12_NoDecodableMessagePanics ==
    \A i \in 1..Len(effects) :
        effects[i].call = "panic" => effects[i].where = "DecodeMessage"

----------------------------------------------------------------------------
(* C13 *)

\* The message types each channel carries.
Carries(chID, t) ==
    \/ chID = StateChannel
         /\ t \in {msgTypeNewRoundStep, msgTypeCommitStep, msgTypeHasVote,
                   msgTypeVoteSetMaj23, msgTypeProposalHeartbeat}
    \/ chID = DataChannel
         /\ t \in {msgTypeProposal, msgTypeProposalPOL, msgTypeBlockPart}
    \/ chID = VoteChannel /\ t = msgTypeVote
    \/ chID = VoteSetBitsChannel /\ t = msgTypeVoteSetBits

\* A frame that does not decode, or a message its channel does not carry (an
\* unknown channel carries nothing).
Undeliverable(chID, bz) ==
    LET d == DecodeMessage(bz)
    IN d.outcome # "ok" \/ ~Carries(chID, d.msg.msgType)

\* C13: given a frame that fails to decode, a message on an unknown channel
\* or a message its channel does not carry, Receive returns, and has changed
\* no PeerState field, put nothing on peerMsgQueue and sent nothing to the
\* peer: at every state a running reactor reaches, for every such frame.
C13_UndeliverableFrameDropped ==
    (env = "receive" /\ ~Panicked) =>
        \A chID \in ChannelIDs, bz \in Frames :
            Undeliverable(chID, bz) =>
                \A view \in CoreViews(chID, bz) :
                    ReceiveOutcome(Cur, TRUE, fastSync, chID, bz, view[1], view[2])
                      = Outcome(Cur, FALSE, <<>>)

----------------------------------------------------------------------------
(* C14 *)

----------------------------------------------------------------------------
(* C15 *)

\* C15: on a VoteSetMaj23(H, R, type, BlockID), Receive calls
\* votes.SetPeerMaj23 and then sends one VoteSetBits echoing (H, R, type,
\* BlockID) with the core's bit-array for the BlockID, if the core's height is
\* H and type is a vote type; otherwise it makes neither call.  Either way the
\* PeerState is left alone.
C15_VoteSetMaj23AnsweredIffValid ==
    (env = "receive" /\ ~Panicked) =>
        \A bz \in VoteSetMaj23Frames :
            \A view \in CoreViews(StateChannel, bz) :
                LET msg == DecodeMessage(bz).msg
                    r == ReceiveOutcome(Cur, TRUE, fastSync, StateChannel, bz,
                                        view[1], view[2])
                IN /\ r.st = Cur
                   /\ ~r.panic
                   /\ r.calls =
                        IF view[1] = msg.Height /\ IsVoteTypeValid(msg.Type)
                        THEN <<SetPeerMaj23Call(msg),
                               TrySendCall(VoteSetBitsChannel,
                                 [msgType |-> msgTypeVoteSetBits,
                                  Height |-> msg.Height, Round |-> msg.Round,
                                  Type |-> msg.Type, BlockID |-> msg.BlockID,
                                  Votes |-> view[2]])>>
                        ELSE <<>>

----------------------------------------------------------------------------
(* C17 *)

\* The consensus inputs among the frames handed to Receive for a peer, decoded,
\* in the order they were handed over.
ConsensusInputs(frames) ==
    LET q == SelectSeq(frames, LAMBDA bz :
                 bz[1] \in {msgTypeProposal, msgTypeBlockPart, msgTypeVote})
    IN [i \in 1..Len(q) |-> DecodeMessage(q[i]).msg]

\* The messages of a peer in a sequence of msgInfo, in order.
MsgsOf(p, q) ==
    LET mine == SelectSeq(q, LAMBDA mi : mi.PeerKey = p)
    IN [i \in 1..Len(mine) |-> mine[i].Msg]

----------------------------------------------------------------------------
(* C18 *)

\* C18: a gossipData iteration sends a ProposalPOLMessage only after the
\* peer's Send has accepted the ProposalMessage of that proposal in the same
\* iteration and the proposal has been registered in the peer state.
C18_ProposalPrecedesPOL ==
    \A i \in 1..Len(effects) :
        (effects[i].call = "Send" /\ effects[i].msg.msgType = msgTypeProposalPOL) =>
            /\ \E j \in 1..(i - 1) :
                  /\ effects[j].call = "Send"
                  /\ effects[j].msg.msgType = msgTypeProposal
                  /\ effects[j].ok
            /\ ps.Proposal

----------------------------------------------------------------------------
(* C19 *)

\* B holds the proposal and every part of its part set.
BHoldsProposal ==
    /\ peerB.Proposal
    /\ peerB.Parts = 0..(rs.Proposal.BlockPartsHeader.Total - 1)

\* B holds every vote of the type that A holds for its round.
BHoldsVotes(type_) ==
    \A index \in SetBits(VoteSetOf(rs, rs.Round, type_).Bits) :
        <<rs.Round, type_, index>> \in peerB.Votes

\* C19 as claimed: with A and B at the same height and round, no loss, every
\* Send accepted and the loops scheduled fairly, B eventually holds the
\* proposal, every block part, and every prevote and precommit A holds for the
\* round.
C19_PeerEventuallyHoldsAll ==
    <>(BHoldsProposal /\ BHoldsVotes(VoteTypePrevote) /\ BHoldsVotes(VoteTypePrecommit))

\* C19: under the same conditions B eventually holds the proposal and every
\* block part, every prevote A holds for the round unless B has announced a
\* step past Prevote, and every precommit A holds for the round unless B has
\* announced a step past Precommit.
C19_PeerEventuallyHoldsWhatItsStepAsksFor ==
    <>( /\ BHoldsProposal
        /\ ps.Step <= RoundStepPrevote => BHoldsVotes(VoteTypePrevote)
        /\ ps.Step <= RoundStepPrecommit => BHoldsVotes(VoteTypePrecommit) )

\* B, still at its first step, holds the proposal with its POL round, both
\* parts, and the two prevotes and two precommits A holds.
C19_Witness ==
    /\ env = "gossip"
    /\ ~lossy
    /\ ps.Step = RoundStepNewHeight
    /\ rs.Proposal.POLRound = 0
    /\ Cardinality(SetBits(rs.Votes[rs.Round].Prevotes)) = 2
    /\ Cardinality(SetBits(rs.Votes[rs.Round].Precommits)) = 2
    /\ BHoldsProposal
    /\ BHoldsVotes(VoteTypePrevote)
    /\ BHoldsVotes(VoteTypePrecommit)

----------------------------------------------------------------------------
(* C20 *)

\* C20: a vote PickSendVote picked whose Send returned false is still
\* recorded as missing for the peer after the iteration, so that a later
\* PickSendVote on the same vote set can pick it again.
C20_RefusedVoteStaysMissing ==
    \A i \in 1..Len(effects) :
        ( /\ effects[i].call = "Send"
          /\ effects[i].msg.msgType = msgTypeVote
          /\ ~effects[i].ok ) =>
            LET msg == effects[i].msg
                votes == getVoteBitArray(ps, msg.Height, msg.Round, msg.Type)
            IN votes = Nil \/ ~GetIndexVal(heap[votes], msg.ValidatorIndex)

----------------------------------------------------------------------------
(* Claims about the transaction event buffer and BroadcastTxCommit *)

\* A step of Flush that published an event, changed the buffer or returned
\* something else than the operation before it.
FlushStep ==
    /\ ret'.op = "Flush"
    /\ ret' # ret \/ published' # published \/ events' # events

\* C23: PublishEventTx publishes nothing on the underlying publisher; a Flush
\* in which every publish succeeds publishes exactly the buffered events, in
\* insertion order, and empties the buffer, so that a Flush right after it
\* publishes nothing.
C23_FlushPublishesBufferInOrder ==
    /\ [][ /\ Len(events') > Len(events) => published' = published
           /\ (FlushStep /\ ret'.ok) =>
                 /\ published' = published \o events
                 /\ events' = <<>> ]_vars
    /\ [](ret.op = "Flush" /\ ret.ok =>
             \A k \in FailingAt(events) : Flush(events, k).sent = <<>>)

\* A Flush has published two buffered events and emptied the buffer.
C23_Witness ==
    /\ ret = Ret("Flush", TRUE, 2)
    /\ events = <<>>
    /\ Len(published) >= 2
    /\ published[Len(published) - 1] # published[Len(published)]

\* C24: a Flush for whose k-th event the publisher returns an error returns
\* the error, has published the k-1 events before it and none after, and
\* leaves the buffer as it was; the buffer is emptied only by a Flush that
\* published all of it without error.
C24_FailedFlushKeepsBuffer ==
    [][ /\ (FlushStep /\ ~ret'.ok) =>
              /\ ret'.idx < Len(events)
              /\ published' = published \o SubSeq(events, 1, ret'.idx)
              /\ events' = events
        /\ Len(events') < Len(events) =>
              /\ FlushStep /\ ret'.ok
              /\ published' = published \o events ]_vars

\* A Flush of two events has failed at the second: one was published, both
\* are still buffered.
C24_Witness ==
    /\ ret = Ret("Flush", FALSE, 1)
    /\ Len(events) = 2
    /\ published = <<events[1]>>

\* C25: a call that is past a successful Subscribe and a CheckTx answered with
\* code OK, and to which no event of its transaction has come, returns only
\* once 120 s have passed on its timer, and then the CheckTx result, a zero
\* DeliverTx, the hash and a timeout error; a call whose CheckTx is answered
\* with another code returns at that step the CheckTx result, a zero DeliverTx
\* and a nil error, and never reaches the select.
C25_TimeoutAndCheckTxFailure ==
    [][ /\ (call.at = "select" /\ call'.at = "returned" /\ call.inbox = <<>>) =>
              /\ call.checkTxR.Code = CodeType_OK
              /\ clock >= 120
              /\ call'.err = "timeout"
              /\ call'.result =
                   ResultBroadcastTxCommit(call.checkTxR, ZeroResult, Hash(call.tx), 0)
        /\ (call.at = "checkTx" /\ call'.at = "select") =>
              call'.checkTxR.Code = CodeType_OK
        /\ (call.at = "checkTx" /\ call'.at = "returned") =>
              /\ call'.result.CheckTx.Code # CodeType_OK
              /\ call'.result.DeliverTx = ZeroResult
              /\ call'.result.Hash = Hash(call.tx)
              /\ call'.err = NilError ]_vars

\* A call has returned the timeout error.
C25_Witness ==
    /\ call.at = "returned"
    /\ call.err = "timeout"
    /\ call.result.CheckTx.Code = CodeType_OK
    /\ clock >= 120

\* C26: a call of BroadcastTxCommit that returns an error returns it because
\* mempool.CheckTx returned one or because the timer fired; every other
\* return has a nil error and a result that carries the codes.
C26_ErrorOnlyFromCheckTxOrTimeout ==
    call.at = "returned" =>
        IF call.err # NilError
        THEN call.err \in {"checkTx", "timeout"}
        ELSE call.result # NoResult

----------------------------------------------------------------------------
(* The reactor as a service *)

C27_NewRoundStepBroadcast ==
    ret.op = "NewRoundStep" =>
      /\ Len(effects) \in {1, 2}
      /\ effects[1] = [call |-> "Broadcast", chID |-> StateChannel,
                       msg |-> [msgType |-> msgTypeNewRoundStep,
                                Height |-> rs.Height, Round |-> rs.Round,
                                Step |-> rs.Step,
                                SecondsSinceStartTime |-> 0 - rs.StartTime,
                                LastCommitRound |-> rs.LastCommit.Round]]
      /\ Len(effects) = 2 <=> rs.Step = RoundStepCommit
      /\ Len(effects) = 2 =>
           effects[2] = [call |-> "Broadcast", chID |-> StateChannel,
                         msg |-> [msgType |-> msgTypeCommitStep,
                                  Height |-> rs.Height,
                                  BlockPartsHeader |-> rs.Proposal.BlockPartsHeader,
                                  BlockParts |-> rs.ProposalBlockParts]]

\* The core has moved to the commit step and both messages were broadcast.
C27_Witness ==
    /\ ret.op = "NewRoundStep"
    /\ rs.Step = RoundStepCommit
    /\ Len(effects) = 2

\* The routine whose Send or TrySend a call is: the data routine sends on the
\* Data channel, the votes routine on the Vote channel, and queryMaj23Routine
\* is the one that calls TrySend.
SenderOf(c) ==
    IF c.call = "TrySend" THEN "queryMaj23Routine"
    ELSE IF c.chID = DataChannel THEN "gossipDataRoutine"
    ELSE "gossipVotesRoutine"

\* C28: a routine that has returned from a time.Sleep has called
\* peer.IsRunning() and conR.IsRunning() by the time it calls Send or TrySend,
\* so that it sends nothing once the peer or the reactor has stopped during
\* the sleep.
C28_IsRunningCheckedAfterEveryWake ==
    [][ret'.op = "go" /\ effects' # <<>> =>
         LET r == SenderOf(effects'[1])
         IN /\ r \notin woke'
            /\ peerRunning /\ isRunning]_vars

\* The bit-array st.ps.ProposalBlockParts points to.
PeerParts(st) == Deref(st.heap, st.ps.ProposalBlockParts)

\* The peer state after the step.
Nxt == [ps |-> ps', heap |-> heap']

\* C29: when the data routine has sent a block part, from rs or from the
\* block store, the peer's bit of that part was clear before; it is set after
\* only if Send returned true, no other bit changes, and after a Send that
\* returned false the next pass of the routine can pick the same part.
C29_PartMarkedOnlyWhenSent ==
    [][/\ ret'.op = "go"
       /\ effects' # <<>>
       /\ effects'[1].call = "Send"
       /\ effects'[1].msg.msgType = msgTypeBlockPart
       =>
       LET c == effects'[1]
           i == c.msg.Index + 1
       IN /\ ~PeerParts(Cur)[i]
          /\ PeerParts(Nxt)[i] => c.ok
          /\ \A k \in DOMAIN PeerParts(Cur) \ {i} : PeerParts(Nxt)[k] = PeerParts(Cur)[k]
          /\ DOMAIN PeerParts(Nxt) = DOMAIN PeerParts(Cur)
          /\ ~c.ok => \E o \in gossipDataRoutine(rs', Nxt) :
                         o.calls # <<>> /\ o.calls[1].msg = c.msg]_vars

\* gossipDataForCatchup has sent a part of the block of the peer's height,
\* which is below the local one, and Send has returned false.
C29_Witness ==
    /\ ret.op = "go"
    /\ effects # <<>>
    /\ effects[1].call = "Send"
    /\ effects[1].msg.msgType = msgTypeBlockPart
    /\ ~effects[1].ok
    /\ effects[1].msg.Height = ps.Height
    /\ ps.Height < rs.Height
    /\ \E k \in DOMAIN PeerParts(Cur) : PeerParts(Cur)[k]

\* C21: a routine AddPeer has started returns in the end once the peer or the
\* reactor has stopped; and AddPeer on a reactor that is not running stores
\* no PeerState in the peer, starts no routine and sends nothing.
C21_RoutinesTerminate ==
    /\ \A r \in Routines :
         (loc[r].at # "none" /\ (~peerRunning \/ ~isRunning)) ~> (loc[r] = At("done"))
    /\ [][ret'.op = "AddPeer" /\ ~isRunning =>
            /\ ~peerData'
            /\ loc' = [r \in Routines |-> At("none")]
            /\ effects' = <<>>]_vars

\* The peer has stopped while the reactor runs, and the three routines have
\* returned.
C21_Witness ==
    /\ ~peerRunning
    /\ isRunning
    /\ \A r \in Routines : loc[r] = At("done")

----------------------------------------------------------------------------
(* Receive on the Data channel *)

\* The message types of the Data channel.
DataTypes == {msgTypeProposal, msgTypeProposalPOL, msgTypeBlockPart}

\* What the Data channel case makes of the peer state for a message.
DataUpdate(st, msg) ==
    CASE msg.msgType = msgTypeProposal -> SetHasProposal(st, msg)
      [] msg.msgType = msgTypeProposalPOL -> ApplyProposalPOLMessage(st, msg)
      [] msg.msgType = msgTypeBlockPart ->
            SetHasProposalBlockPart(st, msg.Height, msg.Round, msg.Index)

\* C30: when Receive is called for a Proposal or a BlockPart of the peer, the
\* peer state is updated by the time the call is at its send to peerMsgQueue,
\* with the message not yet in the queue, and the send that follows leaves the
\* peer state as it is; for a ProposalPOL the peer state is updated and
\* nothing is sent, so that the queue never holds one.
C30_PeerStateBeforeQueue ==
    /\ [][/\ recv'[1].delivered # recv[1].delivered
          /\ Head(recv[1].inbox)[1] \in DataTypes
          =>
          LET msg == DecodeMessage(Head(recv[1].inbox)).msg
              exp == DataUpdate(Cur, msg)
          IN /\ PeerView(ps', heap') = PeerView(exp.ps, exp.heap)
             /\ peerMsgQueue' = peerMsgQueue
             /\ recv'[1].sending
                  = recv[1].sending
                      \o (IF msg.msgType = msgTypeProposalPOL THEN <<>>
                          ELSE <<msgInfo(msg, 1)>>)]_vars
    /\ [][Len(peerMsgQueue') > Len(peerMsgQueue) =>
            /\ ps' = ps /\ heap' = heap
            /\ \E p \in Peers :
                 /\ Len(recv'[p].sending) < Len(recv[p].sending)
                 /\ \E i \in 1..Len(recv[p].sending) :
                      peerMsgQueue'[Len(peerMsgQueue')] = recv[p].sending[i]]_vars
    /\ [](env = "queue" =>
            \A i \in 1..Len(taken \o peerMsgQueue) :
               (taken \o peerMsgQueue)[i].Msg.msgType # msgTypeProposalPOL)

\* Receive for a block part of peer 1 has marked the part in the peer state and
\* waits at its send, the queue being full of something else, after a
\* ProposalPOL of the peer was recorded.
C30_Witness ==
    /\ env = "queue"
    /\ Len(recv[1].sending) = 1
    /\ recv[1].sending[1].Msg.msgType = msgTypeBlockPart
    /\ Len(peerMsgQueue) = MaxQueue
    /\ ps.ProposalBlockParts # Nil
    /\ Deref(heap, ps.ProposalBlockParts) = <<TRUE>>
    /\ ps.ProposalPOL # Nil

----------------------------------------------------------------------------
(* The gossip routines, pass by pass *)

DataRoutine == "gossipDataRoutine"
VotesRoutine == "gossipVotesRoutine"
QueryRoutine == "queryMaj23Routine"

\* The step is a pass of gossipDataRoutine through its loop body.
DataPass ==
    /\ ret'.op = "go"
    /\ loc[DataRoutine] = At("top")
    /\ \/ loc'[DataRoutine] = Asleep("top")
       \/ effects' # <<>> /\ effects'[1].call = "Send" /\ effects'[1].chID = DataChannel

\* The pass goes to gossipDataForCatchup: no part of rs is wanted under the
\* peer's header, and the peer is at an earlier height.
CatchingUp ==
    /\ ~(HasHeader(rs, ps.ProposalBlockPartsHeader) /\ PartsWanted(rs, Cur) # {})
    /\ 0 < ps.Height
    /\ ps.Height < rs.Height

\* The block store has the meta of the peer's height, with the peer's parts
\* header.
MetaMatches ==
    /\ ps.Height \in DOMAIN blockStore
    /\ blockStore[ps.Height].PartsHeader = ps.ProposalBlockPartsHeader

\* C31: a pass of the data routine through gossipDataForCatchup sends one
\* block part of the peer's height and round, which the peer lacks and the
\* store holds under the peer's parts header, or sends nothing, leaves the
\* peer state as it is and sleeps; it sends nothing when the meta is missing,
\* when the headers differ and when the peer lacks no part.
C31_CatchupSendsOnlyStoredParts ==
    [][DataPass /\ CatchingUp =>
         /\ effects' # <<>> =>
              LET msg == effects'[1].msg
              IN /\ Len(effects') = 1
                 /\ msg.msgType = msgTypeBlockPart
                 /\ msg.Height = ps.Height /\ msg.Round = ps.Round
                 /\ MetaMatches
                 /\ msg.Index < blockStore[ps.Height].PartsHeader.Total
                 /\ msg.Index \in PartsNotHeld(Cur)
         /\ effects' = <<>> =>
              /\ PeerView(ps', heap') = PeerView(ps, heap)
              /\ loc'[DataRoutine] = Asleep("top")
         /\ ~MetaMatches \/ PartsNotHeld(Cur) = {} => effects' = <<>>]_vars

\* The peer is a height behind and lacks parts, under a parts header that is
\* not the stored block's: the pass has sent nothing and sleeps.
C31_Witness ==
    /\ ret.op = "go"
    /\ loc[DataRoutine] = Asleep("top")
    /\ effects = <<>>
    /\ CatchingUp
    /\ PartsNotHeld(Cur) # {}
    /\ ps.Height \in DOMAIN blockStore
    /\ ~MetaMatches

----------------------------------------------------------------------------
(* gossipVotesRoutine, or queryMaj23Routine, alone: a seventh               *)
(* specification.  The local node is in the last round of the second height, *)
(* with the commit of the first height as LastCommit and in its block store, *)
(* a proposal whose POL round is the round before, and some votes of each    *)
(* round; the peer has announced a round and a step of that height or of the *)
(* height before.  ps is the PeerState for the peer.  The routine (the one   *)
(* env names) passes through its loop and sleeps; the proposal reaches the   *)
(* peer, which sets the POL round of the peer state; beside the query        *)
(* routine, the votes routine picks votes of LastCommit.                     *)

\* The vote bit-arrays the local node holds for a round of a height.
VotesHeld(height) ==
    {b \in BitSeqs(NumValidators(height)) : \A i \in 2..Len(b) : b[i] => b[i - 1]}

VotesRoundStates ==
    {[Height |-> MaxHeight, Round |-> MaxRound, Step |-> RoundStepPrecommit,
      StartTime |-> 0,
      LastCommit |-> [Height |-> MaxHeight - 1, Round |-> 0,
                      Type |-> VoteTypePrecommit,
                      Bits |-> [i \in 1..NumValidators(MaxHeight - 1) |-> TRUE],
                      IsCommit |-> TRUE],
      Proposal |-> [Height |-> MaxHeight, Round |-> MaxRound,
                    BlockPartsHeader |-> [Total |-> MaxParts, Hash |-> 1],
                    POLRound |-> MaxRound - 1],
      ProposalBlockParts |-> [i \in 1..MaxParts |-> TRUE],
      Votes |-> [q \in 0..MaxRound |->
                   IF q = MaxRound THEN [Prevotes |-> pv, Precommits |-> pc]
                   ELSE [Prevotes |-> pol,
                         Precommits |-> NewBits(NumValidators(MaxHeight))]]] :
       pv \in VotesHeld(MaxHeight), pc \in VotesHeld(MaxHeight),
       pol \in {b \in VotesHeld(MaxHeight) : b[1] /\ b[2]}}

\* The steps the peer announces.
VotesSteps ==
    {RoundStepNewHeight, RoundStepPrevote, RoundStepPrecommit, RoundStepCommit}

\* The PeerState after the peer's first NewRoundStepMessage.
VotesPeers(height) ==
    {ApplyNewRoundStepMessage(
       [ps |-> NewPeerState, heap |-> <<>>],
       [Height |-> h, Round |-> round, Step |-> step,
        SecondsSinceStartTime |-> 0, LastCommitRound |-> lcr],
       MaxTime).ps :
       h \in {height - 1, height}, round \in 0..MaxRound, step \in VotesSteps,
       lcr \in (-1)..0}

\* The proposal of the local node has reached the peer: ps.SetHasProposal.
HasProposal ==
    /\ env \in {"gossipVotes", "queryMaj23"}
    /\ ~ps.Proposal
    /\ ps.Height = rs.Proposal.Height
    /\ ps.Round = rs.Proposal.Round
    /\ Becomes(SetHasProposal(Cur, rs.Proposal), snap)
    /\ ret' = Ret("SetHasProposal", TRUE, 0)
    /\ UNCHANGED <<env, reactor, wire, gossip, life, rpc>>

\* gossipVotesRoutine picks a vote of rs.LastCommit for a peer one height
\* behind, which records the round of the commit as the peer's catch-up round.
PicksLastCommit ==
    /\ env = "queryMaj23"
    /\ ps.Height # 0
    /\ rs.Height = ps.Height + 1
    /\ VoteSetPicked(rs.LastCommit)

InitVotes ==
    /\ rs \in VotesRoundStates
    /\ ps \in VotesPeers(rs.Height)
    /\ heap = <<>>
    /\ env \in {"gossipVotes", "queryMaj23"}
    /\ snap = NoSnap
    /\ ret = Ret("NewPeerState", TRUE, 0)
    /\ fastSync = FALSE
    /\ peerMsgQueue = <<>>
    /\ effects = <<>>
    /\ NoWire
    /\ peerB = <<>>
    /\ net = <<>>
    /\ lossy \in (IF env = "gossipVotes" THEN BOOLEAN ELSE {FALSE})
    /\ isRunning = TRUE
    /\ conS = "running"
    /\ registered = TRUE
    /\ peerRunning = TRUE
    /\ peerData = TRUE
    /\ loc = [r \in Routines |-> IF r = env \o "Routine" THEN At("top")
                                 ELSE At("none")]
    /\ woke = {}
    /\ blockStore = BlockStoreAt(rs.Height)
    /\ mtx = {}
    /\ NoRpc

NextVotes ==
    \/ GossipsVotes
    \/ QueriesMaj23
    \/ PicksLastCommit
    \/ Wakes
    \/ HasProposal

SpecVotes == InitVotes /\ [][NextVotes]_vars

\* The step is a pass of gossipVotesRoutine through its loop body.
VotesPass ==
    /\ ret'.op = "go"
    /\ loc[VotesRoutine] = At("top")
    /\ \/ loc'[VotesRoutine] = Asleep("top")
       \/ effects' # <<>> /\ effects'[1].call = "Send" /\ effects'[1].chID = VoteChannel

\* The vote sets gossipVotesForHeight offers, in the order of its text, each
\* with the condition under which it is offered.
Candidates ==
    <<[cond |-> ps.Step = RoundStepNewHeight, votes |-> rs.LastCommit],
      [cond |-> ps.Step <= RoundStepPrevote /\ ps.Round # -1 /\ ps.Round <= rs.Round,
       votes |-> VotesAt(rs, ps.Round, VoteTypePrevote)],
      [cond |-> ps.Step <= RoundStepPrecommit /\ ps.Round # -1 /\ ps.Round <= rs.Round,
       votes |-> VotesAt(rs, ps.Round, VoteTypePrecommit)],
      [cond |-> ps.ProposalPOLRound # -1,
       votes |-> VotesAt(rs, ps.ProposalPOLRound, VoteTypePrevote)]>>

\* The votes of a vote set the peer is not known to have.
Lacking(votes) ==
    IF Len(votes.Bits) = 0 THEN {}
    ELSE PickWanted(PickPrepared(Cur, votes), votes)

\* The call hands a vote of the vote set to peer.Send.
OffersVoteOf(c, votes) ==
    /\ c.call = "Send"
    /\ c.chID = VoteChannel
    /\ c.msg.msgType = msgTypeVote
    /\ c.msg.Height = votes.Height
    /\ c.msg.Round = votes.Round
    /\ c.msg.Type = votes.Type
    /\ c.msg.ValidatorIndex \in Lacking(votes)

\* C32: a pass of gossipVotesRoutine makes no call after a Send that returned
\* true, so it sends at most one vote, and it sleeps exactly when no Send
\* returned true; against a peer of the local height its calls offer votes of
\* LastCommit (peer step NewHeight), of the prevotes and of the precommits of
\* the peer's round and of the prevotes of the peer's POL round, in that
\* order, and a vote set it passed over had no vote the peer lacks but those
\* the pass had offered before.
C32_OneVoteInCandidateOrder ==
    [][VotesPass =>
         LET calls == effects'
             n == Len(effects')
         IN /\ \A i \in 1..n : calls[i].ok => i = n
            /\ \A i \in 1..n : calls[i].call = "Send" /\ calls[i].chID = VoteChannel
            /\ loc'[VotesRoutine] = Asleep("top") <=> \A i \in 1..n : ~calls[i].ok
            /\ rs.Height = ps.Height =>
                 \E f \in [1..n -> 1..Len(Candidates)] :
                    /\ \A i \in 1..n : \A j \in 1..n : i < j => f[i] < f[j]
                    /\ \A i \in 1..n :
                         /\ Candidates[f[i]].cond
                         /\ OffersVoteOf(calls[i], Candidates[f[i]].votes)
                    /\ \A k \in 1..Len(Candidates) :
                         /\ \A i \in 1..n : f[i] # k
                         /\ \A i \in 1..n : calls[i].ok => k < f[i]
                         /\ Candidates[k].cond
                         => Lacking(Candidates[k].votes) \subseteq
                              {calls[i].msg.ValidatorIndex : i \in
                                 {j \in 1..n :
                                    /\ f[j] < k
                                    /\ calls[j].msg.Round = Candidates[k].votes.Round
                                    /\ calls[j].msg.Type = Candidates[k].votes.Type}}]_vars

\* A pass against a peer of the local height has offered a prevote, which
\* peer.Send refused, and then a precommit, which it took: it does not sleep.
C32_Witness ==
    /\ env = "gossipVotes"
    /\ ret.op = "go"
    /\ rs.Height = ps.Height
    /\ Len(effects) = 2
    /\ effects[1].msg.Type = VoteTypePrevote /\ ~effects[1].ok
    /\ effects[2].msg.Type = VoteTypePrecommit /\ effects[2].ok
    /\ loc[VotesRoutine] = At("top")

\* The step is queryMaj23Routine going on to its next time.Sleep with a
\* peer.TrySend on the way.
QuerySends ==
    /\ ret'.op = "go"
    /\ effects' # <<>>
    /\ effects'[1].call = "TrySend"

\* +2/3 of the validators of the local height have a vote in the local vote
\* set of the round and type.
LocalMaj23(round, type_) ==
    /\ round \in DOMAIN rs.Votes
    /\ LET bits == IF type_ = VoteTypePrevote THEN rs.Votes[round].Prevotes
                   ELSE rs.Votes[round].Precommits
       IN 3 * Cardinality({i \in 1..Len(bits) : bits[i]}) > 2 * Len(bits)

\* C33: whenever queryMaj23Routine hands a message to peer.TrySend, it is one
\* VoteSetMaj23Message of the peer's height on the state channel, either for
\* the peer's round or POL round with the local node at the peer's height and
\* a +2/3 majority in its vote set of that round and type, or for the round
\* and BlockID of the stored commit with the peer's catch-up round set and
\* the peer's height stored; the routine then sleeps.
C33_Maj23QueriedOnlyWithMajority ==
    [][QuerySends =>
         LET msg == effects'[1].msg
         IN /\ Len(effects') = 1
            /\ effects'[1].chID = StateChannel
            /\ msg.msgType = msgTypeVoteSetMaj23
            /\ msg.Height = ps.Height
            /\ \/ /\ rs.Height = ps.Height
                  /\ \/ msg.Round = ps.Round
                     \/ msg.Round = ps.ProposalPOLRound /\ msg.Type = VoteTypePrevote
                  /\ LocalMaj23(msg.Round, msg.Type)
                  /\ msg.BlockID = 1
               \/ /\ ps.CatchupCommitRound # -1
                  /\ 0 < ps.Height
                  /\ ps.Height <= Len(blockStore)
                  /\ msg.Round = blockStore[ps.Height].Commit.Round
                  /\ msg.Type = VoteTypePrecommit
                  /\ msg.BlockID = blockStore[ps.Height].Commit.BlockID
            /\ loc'[QueryRoutine].at = "asleep"]_vars

\* The routine has queried the prevotes of the POL round of a peer of the
\* local height, and sleeps.
C33_Witness ==
    /\ env = "queryMaj23"
    /\ ret.op = "go"
    /\ effects # <<>>
    /\ effects[1].call = "TrySend"
    /\ rs.Height = ps.Height
    /\ ps.ProposalPOLRound = 0
    /\ effects[1].msg.Round = ps.ProposalPOLRound
    /\ ps.Round # ps.ProposalPOLRound
    /\ loc[QueryRoutine] = Asleep("catchup")

----------------------------------------------------------------------------
(* The mutexes: an eighth specification.  The goroutines that work on one    *)
(* peer (the connection's, which calls Receive, and the three routines of    *)
(* AddPeer) and the one that calls SwitchToConsensus are followed from one   *)
(* statement on a mutex, the transport or peerMsgQueue to the next.  A      *)
(* deferred Unlock is the last statement of its function.  Of what the      *)
(* statements between them do, only fastSync is followed here.               *)

\* A statement: the line, what it does, and the mutex it does it on.
Stmt(line, op, m) == [line |-> line, op |-> op, m |-> m]

GetRoundStateStmts == <<Stmt(833, "Lock", "ps"), Stmt(834, "Unlock", "ps")>>

SetHasProposalStmts == <<Stmt(850, "Lock", "ps"), Stmt(851, "Unlock", "ps")>>

SetHasProposalBlockPartStmts == <<Stmt(869, "Lock", "ps"), Stmt(870, "Unlock", "ps")>>

PickVoteToSendStmts == <<Stmt(893, "Lock", "ps"), Stmt(894, "Unlock", "ps")>>

EnsureVoteBitArraysStmts == <<Stmt(993, "Lock", "ps"), Stmt(994, "Unlock", "ps")>>

SetHasVoteStmts == <<Stmt(1021, "Lock", "ps"), Stmt(1022, "Unlock", "ps")>>

ApplyNewRoundStepMessageStmts == <<Stmt(1037, "Lock", "ps"), Stmt(1038, "Unlock", "ps")>>

FastSyncStmts == <<Stmt(312, "RLock", "conR"), Stmt(313, "RUnlock", "conR")>>

\* A variant that sends before PickVoteToSend has returned, which C34 tells
\* from the code's.
PickSendVoteStmtsSendingLocked ==
    <<Stmt(893, "Lock", "ps"), Stmt(884, "Send", ""), Stmt(894, "Unlock", "ps")>>

\* PickSendVote: PickVoteToSend, and with a vote picked, Peer.Send.
PickSendVoteStmts == PickVoteToSendStmts \o <<Stmt(884, "Send", "")>>

\* Receive, by the message it is given.
ReceiveKinds == {"NewRoundStep", "VoteSetMaj23", "VoteSetMaj23 of another height",
                 "Proposal", "BlockPart", "Vote"}

ReceiveStmts(kind) ==
    CASE kind = "NewRoundStep" -> ApplyNewRoundStepMessageStmts
      [] kind = "VoteSetMaj23" ->
           <<Stmt(187, "Lock", "cs"), Stmt(189, "Unlock", "cs"),
             Stmt(207, "TrySend", "")>>
      [] kind = "VoteSetMaj23 of another height" ->
           <<Stmt(187, "Lock", "cs"), Stmt(189, "Unlock", "cs")>>
      [] kind = "Proposal" ->
           FastSyncStmts \o SetHasProposalStmts \o <<Stmt(231, "peerMsgQueue", "")>>
      [] kind = "BlockPart" ->
           FastSyncStmts \o SetHasProposalBlockPartStmts
             \o <<Stmt(236, "peerMsgQueue", "")>>
      [] kind = "Vote" ->
           FastSyncStmts \o <<Stmt(249, "Lock", "cs"), Stmt(251, "Unlock", "cs")>>
             \o EnsureVoteBitArraysStmts \o EnsureVoteBitArraysStmts
             \o SetHasVoteStmts \o <<Stmt(256, "peerMsgQueue", "")>>

\* One pass of each routine that sends: a block part, a vote, a VoteSetMaj23.
gossipDataRoutineStmts ==
    GetRoundStateStmts \o <<Stmt(436, "Send", "")>> \o SetHasProposalBlockPartStmts

gossipVotesRoutineStmts == GetRoundStateStmts \o PickSendVoteStmts

queryMaj23RoutineStmts == GetRoundStateStmts \o <<Stmt(664, "TrySend", "")>>

SwitchToConsensusStmts == <<Stmt(85, "Lock", "conR"), Stmt(87, "Unlock", "conR")>>

Threads ==
    {"Receive", "gossipDataRoutine", "gossipVotesRoutine", "queryMaj23Routine",
     "SwitchToConsensus"}

\* What a goroutine can run next.
StmtsOf(t) ==
    CASE t = "Receive" -> {ReceiveStmts(kind) : kind \in ReceiveKinds}
      [] t = "gossipDataRoutine" -> {gossipDataRoutineStmts}
      [] t = "gossipVotesRoutine" -> {gossipVotesRoutineStmts}
      [] t = "queryMaj23Routine" -> {queryMaj23RoutineStmts}
      [] t = "SwitchToConsensus" -> {SwitchToConsensusStmts}

\* The statement a goroutine is at, if it is at one.
Running(t) == loc[t].pc <= Len(loc[t].stmts)
StmtAt(t) == loc[t].stmts[loc[t].pc]

\* The statement of t has been done, and t goes on at its next statement, or
\* returns.
Done(t, returns) ==
    /\ loc' = [loc EXCEPT ![t].pc = IF returns THEN Len(loc[t].stmts) + 1 ELSE @ + 1]
    /\ ret' = Ret(t, TRUE, StmtAt(t).line)
    /\ UNCHANGED <<ps, heap, env, snap, peerMsgQueue, wire, gossip,
                   isRunning, conS, registered, peerRunning, peerData, woke,
                   blockStore, rpc>>

\* Lock and RLock: a writer waits for the mutex to be free, a reader for no
\* writer to hold it.
Acquires(t) ==
    /\ Running(t)
    /\ StmtAt(t).op \in {"Lock", "RLock"}
    /\ \A h \in mtx : h.m = StmtAt(t).m => h.how = "RLock" /\ StmtAt(t).op = "RLock"
    /\ mtx' = mtx \cup {[by |-> t, m |-> StmtAt(t).m, how |-> StmtAt(t).op]}
    /\ effects' = <<>>
    /\ fastSync' = fastSync
    /\ Done(t, FALSE)

\* Unlock and RUnlock.  SwitchToConsensus has cleared fastSync by its Unlock;
\* Receive returns when FastSync() returned true.
Releases(t) ==
    /\ Running(t)
    /\ StmtAt(t).op \in {"Unlock", "RUnlock"}
    /\ mtx' = {h \in mtx : ~(h.by = t /\ h.m = StmtAt(t).m)}
    /\ effects' = <<>>
    /\ fastSync' = IF StmtAt(t).line = 87 THEN FALSE ELSE fastSync
    /\ Done(t, StmtAt(t).line = 313 /\ fastSync)

\* Send and TrySend on the peer, and the send to peerMsgQueue.
Calls(t) ==
    /\ Running(t)
    /\ StmtAt(t).op \in {"Send", "TrySend", "peerMsgQueue"}
    /\ mtx' = mtx
    /\ effects' = <<[call |-> StmtAt(t).op, line |-> StmtAt(t).line]>>
    /\ fastSync' = fastSync
    /\ Done(t, FALSE)

\* Receive returns and is called with the next message; a routine goes
\* to its next pass.
Returns(t) ==
    /\ ~Running(t)
    /\ t # "SwitchToConsensus"
    /\ \E stmts \in StmtsOf(t) : loc' = [loc EXCEPT ![t] = [stmts |-> stmts, pc |-> 1]]
    /\ ret' = Ret(t, TRUE, 0)
    /\ effects' = <<>>
    /\ UNCHANGED <<ps, heap, env, snap, fastSync, peerMsgQueue, wire, gossip,
                   isRunning, conS, registered, peerRunning, peerData, woke,
                   blockStore, mtx, rpc>>

Acquire == \E t \in Threads : Acquires(t)
Release == \E t \in Threads : Releases(t)
Call == \E t \in Threads : Calls(t)
Return == \E t \in Threads : Returns(t)

InitLocks ==
    /\ ps = PeerAt(1, 0, RoundStepNewHeight)
    /\ heap = <<>>
    /\ env = "locks"
    /\ snap = NoSnap
    /\ ret = Ret("NewPeerState", TRUE, 0)
    /\ fastSync = TRUE
    /\ peerMsgQueue = <<>>
    /\ effects = <<>>
    /\ NoWire
    /\ NoGossip
    /\ isRunning = TRUE
    /\ conS = "running"
    /\ registered = TRUE
    /\ peerRunning = TRUE
    /\ peerData = TRUE
    /\ loc \in [Threads -> UNION {{[stmts |-> stmts, pc |-> 1] : stmts \in StmtsOf(t)} :
                                   t \in Threads}]
    /\ \A t \in Threads : loc[t].stmts \in StmtsOf(t)
    /\ woke = {}
    /\ blockStore = <<>>
    /\ mtx = {}
    /\ NoRpc

NextLocks ==
    \/ Acquire
    \/ Release
    \/ Call
    \/ Return

SpecLocks == InitLocks /\ [][NextLocks]_vars

\* The mutexes a goroutine holds.
HeldBy(t) == {h.m : h \in {g \in mtx : g.by = t}}

\* The goroutine is at a Send or a TrySend on the peer.
Sending(t) == Running(t) /\ StmtAt(t).op \in {"Send", "TrySend"}

\* C34: a goroutine that is at a Send or a TrySend on the peer holds none of
\* PeerState.mtx, conR.mtx and the consensus core's mtx.
C34_NoMutexHeldInSend ==
    \A t \in Threads : Sending(t) => HeldBy(t) = {}

\* gossipVotesRoutine is at the Send of PickSendVote, having released
\* PeerState.mtx, which Receive now holds.
C34_Witness ==
    /\ env = "locks"
    /\ Sending("gossipVotesRoutine")
    /\ StmtAt("gossipVotesRoutine").line = 884
    /\ "ps" \in HeldBy("Receive")

----------------------------------------------------------------------------
(* C35 *)

\* The fields of the peer state that a round change resets, as values.
RoundFields(p, h) ==
    [Proposal |-> p.Proposal,
     ProposalBlockPartsHeader |-> p.ProposalBlockPartsHeader,
     ProposalBlockParts |-> <<p.ProposalBlockParts # Nil, Deref(h, p.ProposalBlockParts)>>,
     ProposalPOLRound |-> p.ProposalPOLRound,
     ProposalPOL |-> <<p.ProposalPOL # Nil, Deref(h, p.ProposalPOL)>>,
     Prevotes |-> <<p.Prevotes # Nil, Deref(h, p.Prevotes)>>,
     Precommits |-> <<p.Precommits # Nil, Deref(h, p.Precommits)>>]

----------------------------------------------------------------------------
(* C36 *)

\* C36: whenever the peer's CatchupCommitRound is its Round (and not -1),
\* CatchupCommit and Precommits are one bit-array.
C36_CatchupCommitIsPrecommits ==
    (ps.CatchupCommitRound = ps.Round /\ ps.Round # -1) =>
        ps.CatchupCommit = ps.Precommits

----------------------------------------------------------------------------
(* C37 *)

\* The block parts the peer is recorded as holding.
PartsHeld(p, h) == SetBits(Deref(h, p.ProposalBlockParts))

\* C37: over every step that leaves the peer at its height and round, every
\* block part recorded as held stays recorded.
C37_HeldPartsNeverShrink ==
    [][(ps'.Height = ps.Height /\ ps'.Round = ps.Round) =>
         PartsHeld(ps, heap) \subseteq PartsHeld(ps', heap')]_vars

----------------------------------------------------------------------------
(* C38 *)

\* The last operation was a Flush that returned an error after it had
\* published events of the buffer; nothing has been done to the buffer since.
FlushFailedPartWay ==
    /\ ret.op = "Flush"
    /\ ~ret.ok
    /\ ret.idx >= 1

\* C38: no event handed to the buffer is published twice on the underlying
\* publisher: a Flush that is called again right after a Flush that failed
\* part-way does not publish the events the failed one had published, which
\* are the first of the buffer.
C38_EventPublishedAtMostOnce ==
    [][(FlushFailedPartWay /\ ret'.op = "Flush" /\ published' # published) =>
         published'[Len(published) + 1] # events[1]]_vars

----------------------------------------------------------------------------
(* The reactor, its peer and the three goroutines as in the sixth            *)
(* specification, with a peer that may send a CommitStepMessage before it    *)
(* has announced its round step: a ninth specification.                      *)

\* The CommitStepMessages of a peer that names the height of a PeerState
\* fresh from NewPeerState; Receive decodes them as any other and hands
\* them to ApplyCommitStepMessage, which compares the heights only.
EarlyCommitSteps == {[msg EXCEPT !.Height = 0] : msg \in AnnouncedCommitSteps}

\* Receive for a CommitStepMessage of the peer, before Receive has applied a
\* NewRoundStepMessage of it.
PeerSendsEarly ==
    /\ env = "routines"
    /\ isRunning /\ peerData /\ peerRunning
    /\ ps.Height = 0
    /\ \E msg \in EarlyCommitSteps :
         Becomes(ApplyCommitStepMessage(Cur, msg), snap)
    /\ ret' = Ret("Receive", TRUE, 0)
    /\ effects' = <<>>
    /\ UNCHANGED <<env, fastSync, peerMsgQueue, wire, gossip, life, rpc>>

NextJoin ==
    \/ OnStart
    \/ OnStop
    \/ AddPeer
    \/ StopPeer
    \/ SwitchToConsensus
    \/ NewRoundStep
    \/ PeerAnnounces
    \/ PeerSendsEarly
    \/ GossipsData
    \/ GossipsVotes
    \/ QueriesMaj23
    \/ Wakes

SpecJoin == InitRoutines /\ [][NextJoin]_vars

----------------------------------------------------------------------------
(* C39 *)

\* The messages the gossip routines send a peer about proposals and votes.
GossipedTypes ==
    {msgTypeProposal, msgTypeProposalPOL, msgTypeBlockPart, msgTypeVote,
     msgTypeVoteSetMaj23}

\* C39: while the peer state is as NewPeerState left it, at Height 0 and
\* Round -1, no step of a gossip routine sends the peer a Proposal, a
\* ProposalPOL, a BlockPart, a Vote or a VoteSetMaj23 message.
C39_NothingGossipedBeforeRoundStep ==
    [][(ret'.op = "go" /\ peerData /\ ps.Height = 0 /\ ps.Round = -1) =>
         \A i \in 1..Len(effects') :
            effects'[i].msg.msgType \notin GossipedTypes]_vars

----------------------------------------------------------------------------
(* PickVoteToSend beside SetHasVote and ApplyHasVoteMessage: a tenth         *)
(* specification.  The peer has announced the last round of the first        *)
(* height, and may have been given a proposal with a POL round.  The votes   *)
(* routine calls PickSendVote with vote sets of that height, Receive applies *)
(* the peer's votes and HasVote messages; each of the three methods holds    *)
(* PeerState.mtx from its first statement to its return, so that concurrent  *)
(* calls take effect one after the other, in any order.  No Send is refused, *)
(* and net holds the votes PickVoteToSend has returned, in order.            *)

\* The height of the peer and of the vote sets: the first.
PicksHeight == MaxHeight - 1
MaxPicks == 3       \* the votes picked in one behaviour

\* The vote sets handed to PickSendVote: prevotes and precommits of each
\* round, a precommit set with votes also as a commit.
PickSets ==
    {v \in [Height : {PicksHeight}, Round : 0..MaxRound, Type : VoteTypes,
            Bits : BitSeqs(NumValidators(PicksHeight)), IsCommit : BOOLEAN] :
        v.IsCommit => (v.Type = VoteTypePrecommit /\ SetBits(v.Bits) # {})}

\* The votes and HasVote messages of the peer.
PickVotes ==
    [Height : {PicksHeight}, Round : 0..MaxRound, Type : VoteTypes,
     ValidatorIndex : 0..(NumValidators(PicksHeight) - 1)]

\* The PeerState after the peer's NewRoundStepMessage, and after a proposal
\* whose POL round is the round before.
PicksStarts ==
    LET st0 == ApplyNewRoundStepMessage(
                 [ps |-> NewPeerState, heap |-> <<>>],
                 [Height |-> PicksHeight, Round |-> MaxRound,
                  Step |-> RoundStepNewHeight, SecondsSinceStartTime |-> 0,
                  LastCommitRound |-> -1],
                 MaxTime)
    IN {st0,
        SetHasProposal(st0, [Height |-> PicksHeight, Round |-> MaxRound,
                             BlockPartsHeader |-> [Total |-> 0, Hash |-> 1],
                             POLRound |-> MaxRound - 1])}

\* PickSendVote(votes): PickVoteToSend, and Send for the vote it returned.
\* A commit is of the round recorded as the catch-up commit round, if one is.
PickSendsVote ==
    /\ env = "picks"
    /\ Len(net) < MaxPicks
    /\ \E votes \in PickSets :
         /\ votes.IsCommit => ps.CatchupCommitRound \in {-1, votes.Round}
         /\ IF Len(votes.Bits) = 0
            THEN /\ Becomes(Cur, snap)
                 /\ ret' = Ret("PickVoteToSend", FALSE, 0)
                 /\ effects' = <<>>
                 /\ net' = net
            ELSE LET st1 == PickPrepared(Cur, votes)
                     want == PickWanted(st1, votes)
                 IN IF want = {}
                    THEN /\ Becomes(st1, snap)
                         /\ ret' = Ret("PickVoteToSend", FALSE, 0)
                         /\ effects' = <<>>
                         /\ net' = net
                    ELSE \E index \in want :
                           /\ Becomes(PickPicked(st1, votes, index), snap)
                           /\ ret' = Ret("PickVoteToSend", TRUE, index)
                           /\ effects' = <<SendCall(VoteChannel,
                                                    VoteMessageOf(votes, index), TRUE)>>
                           /\ net' = net \o <<VoteMessageOf(votes, index)>>
    /\ UNCHANGED <<env, fastSync, peerMsgQueue, wire, rs, peerB, lossy, life, rpc>>

\* Receive, VoteChannel, *VoteMessage of the peer.
PeerVotes ==
    /\ env = "picks"
    /\ \E vote \in PickVotes : VoteReceived(vote, PicksHeight)

\* Receive, StateChannel, *HasVoteMessage of the peer.
PeerHasVote ==
    /\ env = "picks"
    /\ \E msg \in PickVotes :
         /\ Becomes(ApplyHasVoteMessage(Cur, msg), snap)
         /\ ret' = Ret("ApplyHasVoteMessage", TRUE, 0)
         /\ UNCHANGED <<env, reactor, wire, gossip, life, rpc>>

InitPicks ==
    /\ \E st \in PicksStarts : ps = st.ps /\ heap = st.heap
    /\ env = "picks"
    /\ snap = NoSnap
    /\ ret = Ret("NewPeerState", TRUE, 0)
    /\ fastSync = FALSE
    /\ peerMsgQueue = <<>>
    /\ effects = <<>>
    /\ NoWire
    /\ NoGossip
    /\ Started
    /\ conS = "running"
    /\ NoRpc

NextPicks ==
    \/ PickSendsVote
    \/ PeerVotes
    \/ PeerHasVote

SpecPicks == InitPicks /\ [][NextPicks]_vars

----------------------------------------------------------------------------
(* C40 *)

\* The votes of net for a round and a type.
PickedOf(round, type_) ==
    {i \in 1..Len(net) : net[i].Round = round /\ net[i].Type = type_}

========================================================================
